---- MODULE Spec2Model ----
(***************************************************************************)
(* Model of bun-plugin-javascript-obfuscator (src/src/index.ts).           *)
(*                                                                         *)
(* Texts, specifiers and paths are sequences of one-character strings, so  *)
(* that the regular expressions and string tests of the source are         *)
(* modelled by what they do on characters.                                 *)
(***************************************************************************)
EXTENDS Naturals, Sequences, FiniteSets, TLC

(***************************************************************************)
(* Character classes used by the source's regular expressions.             *)
(***************************************************************************)
Letters ==
    {"a","b","c","d","e","f","g","h","i","j","k","l","m","n","o","p","q","r",
     "s","t","u","v","w","x","y","z",
     "A","B","C","D","E","F","G","H","I","J","K","L","M","N","O","P","Q","R",
     "S","T","U","V","W","X","Y","Z"}

DigitChars == <<"0","1","2","3","4","5","6","7","8","9">>

Digits == {DigitChars[i] : i \in 1..10}

\* \w
WordChars == Letters \cup Digits \cup {"_"}

\* \s (the members that occur in the modelled texts)
Whitespace == {" ", "\t", "\n", "\r"}

\* what "." does not match, and where "$" matches under the m flag
LineTerminators == {"\n", "\r"}

\* ['"]
Quotes == {"'", "\""}

\* [\w*{}\s,] of importRegex
BindingChars == WordChars \cup Whitespace \cup {"*", "{", "}", ","}

\* [@a-zA-Z0-9._\-/:] of isValidImportPath
SpecifierChars == Letters \cup Digits \cup {"@", ".", "_", "-", "/", ":"}

\* [./_@-] of isValidImportPath
PunctuationChars == {".", "/", "_", "@", "-"}

(***************************************************************************)
(* String primitives (String.prototype.startsWith, includes, trim, ...).   *)
(***************************************************************************)
StartsWithAt(t, i, w) ==
    /\ i >= 1
    /\ i + Len(w) - 1 <= Len(t)
    /\ \A k \in 1..Len(w) : t[i + k - 1] = w[k]

StartsWith(t, w) == StartsWithAt(t, 1, w)

EndsWith(t, w) == Len(w) <= Len(t) /\ StartsWithAt(t, Len(t) - Len(w) + 1, w)

Includes(t, w) == \E i \in 1..(Len(t) + 1) : StartsWithAt(t, i, w)

\* the least member of a non-empty set of indices, 0 for the empty set
MinOf(S) == IF S = {} THEN 0 ELSE CHOOSE i \in S : \A j \in S : i <= j

\* index of the first occurrence of w in t at or after i, 0 when there is none
IndexOfFrom(t, w, i) ==
    MinOf({j \in i..(Len(t) - Len(w) + 1) : j >= 1 /\ StartsWithAt(t, j, w)})

\* first index at or after i whose character is outside class (Len(t)+1 at the
\* end): where a greedy run class* that starts at i stops
RunEnd(t, i, class) ==
    CHOOSE j \in i..(Len(t) + 1) :
        /\ j > Len(t) \/ t[j] \notin class
        /\ \A k \in i..(j - 1) : t[k] \in class

\* first index at or after i whose character is in class, 0 when there is none
FirstIn(t, i, class) == MinOf({j \in i..Len(t) : t[j] \in class})

\* \s* at i
SkipWs(t, i) == IF i > Len(t) THEN i ELSE RunEnd(t, i, Whitespace)

\* String.prototype.trim
Trim(t) ==
    LET inner == {j \in 1..Len(t) : t[j] \notin Whitespace}
    IN  IF inner = {} THEN <<>>
        ELSE SubSeq(t, MinOf(inner), CHOOSE i \in inner : \A j \in inner : i >= j)

\* Array.prototype.join over sequences of texts
RECURSIVE Join(_, _)
Join(parts, sep) ==
    IF parts = <<>> THEN <<>>
    ELSE IF Len(parts) = 1 THEN parts[1]
    ELSE parts[1] \o sep \o Join(Tail(parts), sep)

\* decimal rendering of a natural number (template literal `${i}`)
RECURSIVE Decimal(_)
Decimal(n) ==
    IF n < 10 THEN <<DigitChars[n + 1]>>
    ELSE Decimal(n \div 10) \o <<DigitChars[(n % 10) + 1]>>

(***************************************************************************)
(* Words of the source's patterns.                                         *)
(***************************************************************************)
kwImport == <<"i","m","p","o","r","t">>
kwExport == <<"e","x","p","o","r","t">>
kwFrom == <<"f","r","o","m">>
kwRequire == <<"r","e","q","u","i","r","e">>
kwNodeModules == <<"n","o","d","e","_","m","o","d","u","l","e","s">>
lineCommentOpen == <<"/","/">>
blockCommentOpen == <<"/","*">>
blockCommentClose == <<"*","/">>

\* the "no value" of a path or of a match
Null == <<>>

(***************************************************************************)
(* defaultIsExternal, isValidImportPath                                    *)
(***************************************************************************)
defaultIsExternal(modulePath) ==
    \/ Includes(modulePath, kwNodeModules)
    \/ /\ ~StartsWith(modulePath, <<".">>)
       /\ ~StartsWith(modulePath, <<"/">>)
       /\ ~StartsWith(modulePath, <<"~">>)

isValidImportPath(path) ==
    IF path = <<>> \/ Len(Trim(path)) = 0 THEN FALSE
    ELSE IF Includes(path, <<"\n">>) \/ Includes(path, <<"\r">>) THEN FALSE
    ELSE IF Includes(path, <<"$","{">>) \/ Includes(path, <<"}">>) THEN FALSE
    ELSE IF path # Trim(path) THEN FALSE
    ELSE IF ~(\A k \in 1..Len(path) : path[k] \in SpecifierChars) THEN FALSE
    ELSE IF \A k \in 1..Len(path) : path[k] \in PunctuationChars THEN FALSE
    ELSE TRUE

(***************************************************************************)
(* Comment stripping of collectExternalDependencies                        *)
(***************************************************************************)
\* where /\/\/.*$/m ends when it starts at i: the next line terminator or the end
LineEnd(t, i) ==
    LET j == FirstIn(t, i, LineTerminators) IN IF j = 0 THEN Len(t) + 1 ELSE j

\* content.replace(/\/\/.*$/gm, ""): the text from i on, each match removed
RECURSIVE StripLineFrom(_, _)
StripLineFrom(t, i) ==
    LET m == IndexOfFrom(t, lineCommentOpen, i)
    IN  IF m = 0 THEN SubSeq(t, i, Len(t))
        ELSE SubSeq(t, i, m - 1) \o StripLineFrom(t, LineEnd(t, m + 2))

StripLineComments(t) == StripLineFrom(t, 1)

\* the first "/*" at or after i that has a "*/" after it, 0 when there is none
BlockCommentStart(t, i) ==
    MinOf({j \in i..Len(t) :
              /\ j >= 1
              /\ StartsWithAt(t, j, blockCommentOpen)
              /\ IndexOfFrom(t, blockCommentClose, j + 2) # 0})

\* content.replace(/\/\*[\s\S]*?\*\//g, ""): the text from i on, each match removed
RECURSIVE StripBlockFrom(_, _)
StripBlockFrom(t, i) ==
    LET m == BlockCommentStart(t, i)
    IN  IF m = 0 THEN SubSeq(t, i, Len(t))
        ELSE SubSeq(t, i, m - 1)
                 \o StripBlockFrom(t, IndexOfFrom(t, blockCommentClose, m + 2) + 2)

StripBlockComments(t) == StripBlockFrom(t, 1)

StripComments(content) == StripBlockComments(StripLineComments(content))

(***************************************************************************)
(* The three patterns of collectExternalDependencies.  A match is the      *)
(* captured specifier and the index after the match (RegExp lastIndex).    *)
(***************************************************************************)
NoMatch == [ok |-> FALSE, cap |-> <<>>, next |-> 0]

\* index of the first quote character at or after i, 0 when there is none
NextQuote(t, i) == FirstIn(t, i, Quotes)

\* ['"]([^'"]+)['"] at k
QuotedAt(t, k) ==
    IF k >= 1 /\ k <= Len(t) /\ t[k] \in Quotes
    THEN LET m == NextQuote(t, k + 1)
         IN  IF m = 0 \/ m = k + 1 THEN NoMatch
             ELSE [ok |-> TRUE, cap |-> SubSeq(t, k + 1, m - 1), next |-> m + 1]
    ELSE NoMatch

\* first index at or after i that is not in [\w*{}\s,]
BindingEnd(t, i) == IF i > Len(t) THEN i ELSE RunEnd(t, i, BindingChars)

\* the positions q of "from" that close (?:\s+(?:[\w*{}\s,]+)\s+from) opened at p
\* and are followed by \s*['"]([^'"]+)['"]
FromPositions(t, p) ==
    {q \in (p + 3)..(BindingEnd(t, p) - 1) :
        /\ t[p] \in Whitespace
        /\ t[q - 1] \in Whitespace
        /\ StartsWithAt(t, q, kwFrom)
        /\ QuotedAt(t, SkipWs(t, q + 4)).ok}

\* /(?:import|export)(?:\s+(?:[\w*{}\s,]+)\s+from)?\s*['"]([^'"]+)['"]/ at i
ImportMatchAt(t, i) ==
    IF ~(StartsWithAt(t, i, kwImport) \/ StartsWithAt(t, i, kwExport))
    THEN NoMatch
    ELSE LET p == i + 6
             qs == FromPositions(t, p)
         IN  IF qs # {}
             THEN QuotedAt(t, SkipWs(t, (CHOOSE q \in qs : \A r \in qs : q >= r) + 4))
             ELSE QuotedAt(t, SkipWs(t, p))

\* /<word>\s*\(\s*['"]([^'"]+)['"]\s*\)/ at i, for require and for import
CallMatchAt(t, i, word) ==
    IF ~StartsWithAt(t, i, word) THEN NoMatch
    ELSE LET a == SkipWs(t, i + Len(word))
         IN  IF ~(a <= Len(t) /\ t[a] = "(") THEN NoMatch
             ELSE LET m == QuotedAt(t, SkipWs(t, a + 1))
                      c == SkipWs(t, m.next)
                  IN  IF m.ok /\ c <= Len(t) /\ t[c] = ")"
                      THEN [ok |-> TRUE, cap |-> m.cap, next |-> c + 1]
                      ELSE NoMatch

\* while ((match = importRegex.exec(content)) !== null) allImports.push(match[1]):
\* the captures of the leftmost matches from i on
RECURSIVE ExecImports(_, _)
ExecImports(t, i) ==
    LET s == MinOf({j \in i..Len(t) : ImportMatchAt(t, j).ok})
    IN  IF s = 0 THEN <<>>
        ELSE <<ImportMatchAt(t, s).cap>> \o ExecImports(t, ImportMatchAt(t, s).next)

\* the same loop for requireRegex and dynamicImportRegex
RECURSIVE ExecCalls(_, _, _)
ExecCalls(t, i, word) ==
    LET s == MinOf({j \in i..Len(t) : CallMatchAt(t, j, word).ok})
    IN  IF s = 0 THEN <<>>
        ELSE <<CallMatchAt(t, s, word).cap>>
                 \o ExecCalls(t, CallMatchAt(t, s, word).next, word)

\* allImports of one comment-stripped text
AllImports(content) ==
    ExecImports(content, 1) \o ExecCalls(content, 1, kwRequire)
        \o ExecCalls(content, 1, kwImport)


(***************************************************************************)
(* Paths (node:path, POSIX): absolute paths are texts that start with "/". *)
(***************************************************************************)
\* String.prototype.split(sep) for a one-character sep, from index i on
RECURSIVE SplitFrom(_, _, _)
SplitFrom(t, i, sep) ==
    LET m == FirstIn(t, i, {sep})
    IN  IF m = 0 THEN <<SubSeq(t, i, Len(t))>>
        ELSE <<SubSeq(t, i, m - 1)>> \o SplitFrom(t, m + 1, sep)

Split(t, sep) == SplitFrom(t, 1, sep)

\* normalizeString: "" and "." segments dropped, ".." removes the segment before
RECURSIVE NormalizeSegments(_, _)
NormalizeSegments(segs, acc) ==
    IF segs = <<>> THEN acc
    ELSE LET s == Head(segs)
         IN  IF s = <<>> \/ s = <<".">> THEN NormalizeSegments(Tail(segs), acc)
             ELSE IF s = <<".", ".">>
                  THEN NormalizeSegments(Tail(segs),
                           IF acc = <<>> THEN acc ELSE SubSeq(acc, 1, Len(acc) - 1))
                  ELSE NormalizeSegments(Tail(segs), Append(acc, s))

AbsolutePath(segs) == <<"/">> \o Join(segs, <<"/">>)

\* the process's working directory, against which resolve(e) resolves
Cwd == <<"/">>

\* path.resolve(from, to) for an absolute from
resolve(from, to) ==
    IF StartsWith(to, <<"/">>)
    THEN AbsolutePath(NormalizeSegments(Split(to, "/"), <<>>))
    ELSE AbsolutePath(NormalizeSegments(Split(from \o <<"/">> \o to, "/"), <<>>))

\* path.dirname of an absolute path
dirname(p) ==
    LET segs == NormalizeSegments(Split(p, "/"), <<>>)
    IN  IF Len(segs) <= 1 THEN <<"/">>
        ELSE AbsolutePath(SubSeq(segs, 1, Len(segs) - 1))

\* path.join(a, b)
join(a, b) == resolve(a, b)

(***************************************************************************)
(* The file system: a function from absolute paths to entries.             *)
(***************************************************************************)
File(text) == [dir |-> FALSE, text |-> text]

Directory == [dir |-> TRUE, text |-> <<>>]

existsSync(files, p) == p \in DOMAIN files

isDirectory(files, p) == p \in DOMAIN files /\ files[p].dir

\* writeFileSync(p, text)
WriteFile(files, p, text) ==
    [q \in (DOMAIN files) \cup {p} |-> IF q = p THEN File(text) ELSE files[q]]

\* mkdirSync(p, { recursive: true })
MakeDir(files, p) ==
    [q \in (DOMAIN files) \cup {p} |-> IF q = p THEN Directory ELSE files[q]]

\* an unlink that removes nothing
UnlinkNothing(files, p) == files

\* fs.unlink(p), fulfilled: p is gone
Unlink(files, p) == [q \in (DOMAIN files) \ {p} |-> files[q]]

\* await fs.unlink(p).catch(() => {}): the promise is fulfilled and p is gone, or
\* it is rejected (p is not there, or the file system refuses) and the rejection
\* is swallowed
UnlinkQuietly(files, p, fulfilled) ==
    IF fulfilled /\ existsSync(files, p) THEN Unlink(files, p) ELSE files

(***************************************************************************)
(* resolveLocalImport                                                      *)
(***************************************************************************)
extensions ==
    << <<".","t","s">>, <<".","t","s","x">>, <<".","j","s">>,
       <<".","j","s","x">>, <<".","m","j","s">>, <<".","c","j","s">>, << >> >>

indexName == <<"i","n","d","e","x">>

indexFiles ==
    << indexName \o <<".","t","s">>, indexName \o <<".","t","s","x">>,
       indexName \o <<".","j","s">>, indexName \o <<".","j","s","x">>,
       indexName \o <<".","m","j","s">> >>

\* the first candidate of cands (in order) that exists, Null when none does
RECURSIVE FirstExisting(_, _)
FirstExisting(files, cands) ==
    IF cands = <<>> THEN Null
    ELSE IF existsSync(files, Head(cands)) THEN Head(cands)
    ELSE FirstExisting(files, Tail(cands))

resolveLocalImport(files, importPath, fromFile) ==
    IF ~StartsWith(importPath, <<".">>) /\ ~StartsWith(importPath, <<"/">>)
    THEN Null
    ELSE LET resolved == resolve(dirname(fromFile), importPath)
             withExt == FirstExisting(files,
                            [k \in 1..Len(extensions) |-> resolved \o extensions[k]])
         IN  IF withExt # Null THEN withExt
             ELSE IF existsSync(files, resolved) /\ isDirectory(files, resolved)
                  THEN FirstExisting(files,
                           [k \in 1..Len(indexFiles) |-> join(resolved, indexFiles[k])])
                  ELSE Null


(***************************************************************************)
(* The alias mapping and the synthetic vendor entry of obfuscatedBuild     *)
(***************************************************************************)
txtDep == <<"_","d","e","p">>

\* `_dep${i}` for the 0-based index i
AliasName(i) == txtDep \o Decimal(i)

\* a mapping that counts the positions from the end of the array
BuildDepMappingFromEnd(arr) ==
    [d \in {arr[k] : k \in 1..Len(arr)} |->
        AliasName(Len(arr) - (CHOOSE k \in 1..Len(arr) : arr[k] = d))]

\* a mapping that hands the first alias to every specifier
BuildDepMappingOneAlias(arr) == [d \in {arr[k] : k \in 1..Len(arr)} |-> AliasName(0)]

\* externalArray.forEach((dep, i) => { depMapping[dep] = `_dep${i}` })
BuildDepMapping(arr) ==
    [d \in {arr[k] : k \in 1..Len(arr)} |->
        AliasName((CHOOSE k \in 1..Len(arr) :
                      arr[k] = d /\ \A j \in 1..Len(arr) : arr[j] = d => j <= k) - 1)]

txtExportStarAs == <<"e","x","p","o","r","t"," ","*"," ","a","s"," ">>
txtFromQuote == <<" ","f","r","o","m"," ","\"">>
txtQuoteSemi == <<"\"",";">>

\* externalArray.map((dep, i) => `export * as _dep${i} from "${dep}";`).join("\n")
VendorEntryContent(arr) ==
    Join([k \in 1..Len(arr) |->
             txtExportStarAs \o AliasName(k - 1) \o txtFromQuote \o arr[k] \o txtQuoteSemi],
         <<"\n">>)

txtVendorEntryPrefix == <<"_","_","v","e","n","d","o","r","_","e","n","t","r","y","_">>
txtDotJs == <<".","j","s">>
txtDotMjs == <<".","m","j","s">>

\* join(dirname(resolve(entrypoints[0])), `__vendor_entry_${Date.now()}.js`)
VendorEntryPathAt(entries, now) ==
    join(dirname(resolve(Cwd, entries[1])),
         txtVendorEntryPrefix \o Decimal(now) \o txtDotJs)

\* nodeModulesBundleName (its default)
nodeModulesBundleName == <<"v","e","n","d","o","r",".","j","s">>

(***************************************************************************)
(* The import rewriter of obfuscatedBuild: four replacements per external  *)
(* specifier.  escapeRegExp makes the specifier match literally.           *)
(***************************************************************************)
kwAs == <<"a","s">>

\* first index at or after i that is not a \w character
WordEnd(t, i) == IF i > Len(t) \/ i < 1 THEN i ELSE RunEnd(t, i, WordChars)

IsWsAt(t, i) == i <= Len(t) /\ t[i] \in Whitespace

\* ["']${escapeRegExp(dep)}["'] at d: the index after it, 0 when it does not match
QuotedDepEnd(t, d, dep) ==
    IF /\ d >= 1
       /\ d + Len(dep) + 1 <= Len(t)
       /\ t[d] \in Quotes
       /\ StartsWithAt(t, d + 1, dep)
       /\ t[d + Len(dep) + 1] \in Quotes
    THEN d + Len(dep) + 2
    ELSE 0

\* \s+from\s*["']dep["'] at e: the index after it, 0 when it does not match
FromDepEnd(t, e, dep, needWs) ==
    IF needWs /\ ~IsWsAt(t, e) THEN 0
    ELSE LET f == SkipWs(t, e)
         IN  IF StartsWithAt(t, f, kwFrom)
             THEN QuotedDepEnd(t, SkipWs(t, f + 4), dep)
             ELSE 0

\* import\s+(\w+)\s+from\s*["']dep["']
DefaultImportAt(t, i, dep) ==
    IF ~(StartsWithAt(t, i, kwImport) /\ IsWsAt(t, i + 6)) THEN NoMatch
    ELSE LET b == SkipWs(t, i + 6)
             e == WordEnd(t, b)
             n == FromDepEnd(t, e, dep, TRUE)
         IN  IF e > b /\ n # 0
             THEN [ok |-> TRUE, cap |-> SubSeq(t, b, e - 1), next |-> n]
             ELSE NoMatch

\* import\s*\*\s*as\s+(\w+)\s+from\s*["']dep["']
NamespaceImportAt(t, i, dep) ==
    IF ~StartsWithAt(t, i, kwImport) THEN NoMatch
    ELSE LET a == SkipWs(t, i + 6)
             b == SkipWs(t, a + 1)
             c == SkipWs(t, b + 2)
             e == WordEnd(t, c)
             n == FromDepEnd(t, e, dep, TRUE)
         IN  IF /\ a <= Len(t) /\ t[a] = "*"
                /\ StartsWithAt(t, b, kwAs)
                /\ IsWsAt(t, b + 2)
                /\ e > c
                /\ n # 0
             THEN [ok |-> TRUE, cap |-> SubSeq(t, c, e - 1), next |-> n]
             ELSE NoMatch

\* import\s*\{([^}]+)\}\s*from\s*["']dep["']
NamedImportAt(t, i, dep) ==
    IF ~StartsWithAt(t, i, kwImport) THEN NoMatch
    ELSE LET a == SkipWs(t, i + 6)
             close == IndexOfFrom(t, <<"}">>, a + 1)
             n == FromDepEnd(t, close + 1, dep, FALSE)
         IN  IF /\ a <= Len(t) /\ t[a] = "{"
                /\ close > a + 1
                /\ n # 0
             THEN [ok |-> TRUE, cap |-> SubSeq(t, a + 1, close - 1), next |-> n]
             ELSE NoMatch

\* require\s*\(\s*["']dep["']\s*\)
RequireDepAt(t, i, dep) ==
    IF ~StartsWithAt(t, i, kwRequire) THEN NoMatch
    ELSE LET a == SkipWs(t, i + 7)
             n == QuotedDepEnd(t, SkipWs(t, a + 1), dep)
             c == SkipWs(t, n)
         IN  IF /\ a <= Len(t) /\ t[a] = "("
                /\ n # 0
                /\ c <= Len(t) /\ t[c] = ")"
             THEN [ok |-> TRUE, cap |-> <<>>, next |-> c + 1]
             ELSE NoMatch

\* imp.match(/(\w+)\s+as\s+(\w+)/) tried at i
AsMatchAt(imp, i) ==
    LET e1 == WordEnd(imp, i)
        a == SkipWs(imp, e1)
        b == SkipWs(imp, a + 2)
        e2 == WordEnd(imp, b)
    IN  IF /\ e1 > i
           /\ IsWsAt(imp, e1)
           /\ StartsWithAt(imp, a, kwAs)
           /\ IsWsAt(imp, a + 2)
           /\ e2 > b
        THEN [ok |-> TRUE, first |-> SubSeq(imp, i, e1 - 1), second |-> SubSeq(imp, b, e2 - 1)]
        ELSE [ok |-> FALSE, first |-> <<>>, second |-> <<>>]

\* one element of the destructuring list: "x as y" becomes "x: y"
Destructured(imp) ==
    LET hits == {i \in 1..Len(imp) : AsMatchAt(imp, i).ok}
    IN  IF hits = {} THEN imp
        ELSE LET m == AsMatchAt(imp, CHOOSE i \in hits : \A j \in hits : i <= j)
             IN  m.first \o <<":", " ">> \o m.second

\* .map(s => s.trim()).filter(s => s).map(...) over the split list
RECURSIVE DestructuredList(_)
DestructuredList(parts) ==
    IF parts = <<>> THEN <<>>
    ELSE IF Trim(Head(parts)) = <<>> THEN DestructuredList(Tail(parts))
    ELSE <<Destructured(Trim(Head(parts)))>> \o DestructuredList(Tail(parts))

txtConst == <<"c","o","n","s","t"," ">>
txtEq == <<" ","="," ">>
txtDefaultOr == <<".","d","e","f","a","u","l","t"," ","|","|"," ">>
txtConstBrace == <<"c","o","n","s","t"," ","{"," ">>
txtBraceEq == <<" ","}"," ","="," ">>

DefaultReplacement(cap, exportName) ==
    txtConst \o cap \o txtEq \o exportName \o txtDefaultOr \o exportName

NamespaceReplacement(cap, exportName) == txtConst \o cap \o txtEq \o exportName

NamedReplacement(cap, exportName) ==
    txtConstBrace \o Join(DestructuredList(Split(cap, ",")), <<",", " ">>)
        \o txtBraceEq \o exportName

\* code.replace(regex, replacement) with the g flag, one loop per pattern
RECURSIVE ReplaceDefaultImports(_, _, _, _)
ReplaceDefaultImports(t, i, dep, exportName) ==
    LET s == MinOf({j \in i..Len(t) : DefaultImportAt(t, j, dep).ok})
        m == DefaultImportAt(t, s, dep)
    IN  IF s = 0 THEN SubSeq(t, i, Len(t))
        ELSE SubSeq(t, i, s - 1) \o DefaultReplacement(m.cap, exportName)
                 \o ReplaceDefaultImports(t, m.next, dep, exportName)

RECURSIVE ReplaceNamespaceImports(_, _, _, _)
ReplaceNamespaceImports(t, i, dep, exportName) ==
    LET s == MinOf({j \in i..Len(t) : NamespaceImportAt(t, j, dep).ok})
        m == NamespaceImportAt(t, s, dep)
    IN  IF s = 0 THEN SubSeq(t, i, Len(t))
        ELSE SubSeq(t, i, s - 1) \o NamespaceReplacement(m.cap, exportName)
                 \o ReplaceNamespaceImports(t, m.next, dep, exportName)

RECURSIVE ReplaceNamedImports(_, _, _, _)
ReplaceNamedImports(t, i, dep, exportName) ==
    LET s == MinOf({j \in i..Len(t) : NamedImportAt(t, j, dep).ok})
        m == NamedImportAt(t, s, dep)
    IN  IF s = 0 THEN SubSeq(t, i, Len(t))
        ELSE SubSeq(t, i, s - 1) \o NamedReplacement(m.cap, exportName)
                 \o ReplaceNamedImports(t, m.next, dep, exportName)

RECURSIVE ReplaceRequires(_, _, _, _)
ReplaceRequires(t, i, dep, exportName) ==
    LET s == MinOf({j \in i..Len(t) : RequireDepAt(t, j, dep).ok})
        m == RequireDepAt(t, s, dep)
    IN  IF s = 0 THEN SubSeq(t, i, Len(t))
        ELSE SubSeq(t, i, s - 1) \o exportName
                 \o ReplaceRequires(t, m.next, dep, exportName)

\* the body of "for (const dep of externalArray)" for one dep
RewriteDep(code, dep, exportName) ==
    ReplaceRequires(
        ReplaceNamedImports(
            ReplaceNamespaceImports(
                ReplaceDefaultImports(code, 1, dep, exportName),
                1, dep, exportName),
            1, dep, exportName),
        1, dep, exportName)

RECURSIVE RewriteDeps(_, _, _, _)
RewriteDeps(code, arr, k, mapping) ==
    IF k > Len(arr) THEN code
    ELSE RewriteDeps(RewriteDep(code, arr[k], mapping[arr[k]]), arr, k + 1, mapping)

txtImportBrace == <<"i","m","p","o","r","t"," ","{"," ">>
txtBraceFromQuote == <<" ","}"," ","f","r","o","m"," ","\"">>
txtDotSlash == <<".","/">>

\* `import { ${vendorImports} } from "${vendorBundlePath}";\n`
VendorImportStatement(arr) ==
    txtImportBrace
        \o Join([k \in 1..Len(arr) |-> AliasName(k - 1)], <<",", " ">>)
        \o txtBraceFromQuote \o txtDotSlash \o nodeModulesBundleName
        \o txtQuoteSemi \o <<"\n">>

\* the text written back over one first-party .js/.mjs artifact
RewriteCode(code, arr, mapping) ==
    VendorImportStatement(arr) \o RewriteDeps(code, arr, 1, mapping)


(***************************************************************************)
(* Inputs: source trees, build options, and what the host build tool and   *)
(* the transformation engine may answer.                                   *)
(***************************************************************************)
None == <<>>

Some(v) == <<v>>

\* import x from "lodash"\nimport "./b"
srcImportsLodashAndB == <<"i","m","p","o","r","t"," ","x"," ","f","r","o","m"," ","\"","l","o","d","a","s","h","\"","\n","i","m","p","o","r","t"," ","\"",".","/","b","\"">>

\* /* require("lodash") // x */
srcBlockCommentWithSlashes == <<"/","*"," ","r","e","q","u","i","r","e","(","\"","l","o","d","a","s","h","\"",")"," ","/","/"," ","x"," ","*","/">>

\* // import "ms"\n/* require("ms") */\nimport("./b");import './b.ts'
srcCommentsAndTwoSpellings == <<"/","/"," ","i","m","p","o","r","t"," ","\"","m","s","\"","\n","/","*"," ","r","e","q","u","i","r","e","(","\"","m","s","\"",")"," ","*","/","\n","i","m","p","o","r","t","(","\"",".","/","b","\"",")",";","i","m","p","o","r","t"," ","'",".","/","b",".","t","s","'">>

\* import "./lib"\nimport "./a"\nrequire("./nope")
srcDirSelfAndMissing == <<"i","m","p","o","r","t"," ","\"",".","/","l","i","b","\"","\n","i","m","p","o","r","t"," ","\"",".","/","a","\"","\n","r","e","q","u","i","r","e","(","\"",".","/","n","o","p","e","\"",")">>

\* /* see http://x */\nimport _ from "lodash"\n/* y */
srcUrlInBlockComment == <<"/","*"," ","s","e","e"," ","h","t","t","p",":","/","/","x"," ","*","/","\n","i","m","p","o","r","t"," ","_"," ","f","r","o","m"," ","\"","l","o","d","a","s","h","\"","\n","/","*"," ","y"," ","*","/">>

\* import pad from 'left-pad'
srcImportsLeftPad == <<"i","m","p","o","r","t"," ","p","a","d"," ","f","r","o","m"," ","'","l","e","f","t","-","p","a","d","'">>

\* import "./a"\nrequire("left-pad")
srcImportsAAndLeftPad == <<"i","m","p","o","r","t"," ","\"",".","/","a","\"","\n","r","e","q","u","i","r","e","(","\"","l","e","f","t","-","p","a","d","\"",")">>

\* export * from "ms"
srcReexportsMs == <<"e","x","p","o","r","t"," ","*"," ","f","r","o","m"," ","\"","m","s","\"">>

pathRoot == <<"/">>
pathA == <<"/","a",".","t","s">>
pathB == <<"/","b",".","t","s">>
pathLib == <<"/","l","i","b">>
pathLibIndex == <<"/","l","i","b","/","i","n","d","e","x",".","t","s">>

TextsA ==
    {srcImportsLodashAndB, srcBlockCommentWithSlashes, srcCommentsAndTwoSpellings,
     srcDirSelfAndMissing, srcUrlInBlockComment}

\* /b.ts may be absent
TextsB == {None, Some(srcImportsLeftPad), Some(srcImportsAAndLeftPad)}

SourceTree(a, b) ==
    LET base == (pathRoot :> Directory) @@ (pathLib :> Directory)
                    @@ (pathLibIndex :> File(srcReexportsMs)) @@ (pathA :> File(a))
    IN  IF b = None THEN base ELSE base @@ (pathB :> File(b[1]))

SourceTrees == {SourceTree(a, b) : a \in TextsA, b \in TextsB}

\* how the caller may spell an entrypoint
EntryNames == {<<"/","a",".","t","s">>, <<"b",".","t","s">>}

MaxEntrypoints == 2

RECURSIVE SeqsUpTo(_, _)
SeqsUpTo(S, n) ==
    IF n = 0 THEN {<<>>}
    ELSE LET shorter == SeqsUpTo(S, n - 1)
         IN  shorter \cup {Append(q, x) : q \in shorter, x \in S}

EntrypointLists == SeqsUpTo(EntryNames, MaxEntrypoints)

outdirName == <<"d","i","s","t">>

\* an output directory that exists before the build: the working directory
outdirHere == <<".">>

\* the artifacts a successful first-party host build may write, in order:
\* name and compiled text
artifactJs == <<"a",".","j","s">>
artifactCss == <<"a",".","c","s","s">>
artifactMjs == <<"b",".","m","j","s">>

\* import x from "lodash";x()
compiledCode == <<"i","m","p","o","r","t"," ","x"," ","f","r","o","m"," ","\"","l","o","d","a","s","h","\"",";","x","(",")">>

\* a{}
compiledCss == <<"a","{","}">>

artifactChunk == <<"c",".","j","s">>

\* require("ms")
compiledChunk == <<"r","e","q","u","i","r","e","(","\"","m","s","\"",")">>

\* a blank chunk
compiledBlank == <<" ", "\n">>

BuildArtifacts ==
    << [name |-> artifactJs, text |-> compiledCode],
       [name |-> artifactCss, text |-> compiledCss],
       [name |-> artifactMjs, text |-> compiledBlank],
       [name |-> artifactChunk, text |-> compiledChunk] >>

MaxOutputs == 4

\* what JavaScriptObfuscator.obfuscate may give back for a non-blank chunk
\* import x from"lodash";var _0=require('left-pad')
engineOutA == <<"i","m","p","o","r","t"," ","x"," ","f","r","o","m","\"","l","o","d","a","s","h","\"",";","v","a","r"," ","_","0","=","r","e","q","u","i","r","e","(","'","l","e","f","t","-","p","a","d","'",")">>

\* import{a as b}from"ms";b()
engineOutB == <<"i","m","p","o","r","t","{","a"," ","a","s"," ","b","}","f","r","o","m","\"","m","s","\"",";","b","(",")">>

\* import $ from"lodash";$()
engineOutDollar == <<"i","m","p","o","r","t"," ","$"," ","f","r","o","m","\"","l","o","d","a","s","h","\"",";","$","(",")">>

EngineOutputs == {engineOutA, engineOutB, engineOutDollar}

\* the values Date.now() may give
MaxNow == 2

Times == 1..MaxNow


(***************************************************************************)
(* State of one obfuscatedBuild invocation.                                *)
(***************************************************************************)
VARIABLES
    fs,                \* the file system
    options,           \* the options object of the call
    pc,                \* where the invocation stands
    queue,             \* collectExternalDependencies: queue
    visited,           \* collectExternalDependencies: visited
    externals,         \* collectExternalDependencies: externals, in insertion order
    scanned,           \* the paths handed to readFileSync, in order
    externalArray,     \* Array.from(externalDeps)
    userBuildResult,   \* the first Bun.build's answer
    obfuscatedOutputs, \* obfuscatedOutputs
    transformed,       \* artifact path -> its text when phase 2 was through with it
    depMapping,        \* depMapping
    vendorEntryPath,   \* vendorEntryPath, once the entry file was written
    vendorOutput,      \* vendorOutput
    rewritten,         \* the artifacts the import rewriter wrote back
    result,            \* the value obfuscatedBuild resolved with
    error,             \* the error obfuscatedBuild rejected with
    warnings,          \* number of console.warn calls
    events             \* calls to the collaborators, in order

vars ==
    <<fs, options, pc, queue, visited, externals, scanned, externalArray,
      userBuildResult, obfuscatedOutputs, transformed, depMapping,
      vendorEntryPath, vendorOutput, rewritten, result, error, warnings, events>>

Range(q) == {q[k] : k \in 1..Len(q)}

Event(op, path, list) == [op |-> op, path |-> path, list |-> list]

\* what an "await fs.unlink(p).catch(() => {})" leaves in the record of calls
UnlinkEvent(files, p, fulfilled) ==
    Event(IF fulfilled /\ existsSync(files, p) THEN "unlink" ELSE "unlinkRejected",
          p, <<>>)

\* bundleNodeModules = true by default
bundleNodeModules == IF options.bundleNodeModules = None THEN TRUE
                     ELSE options.bundleNodeModules[1]

\* isExternal = defaultIsExternal by default
isExternal(modulePath) == defaultIsExternal(modulePath)

\* buildOptions.external || []
CallerExternals == IF options.external = None THEN << >> ELSE options.external[1]

\* a first-party build that is told of the scanned externals only
UserBuildExternalOnlyScanned(caller, arr) == arr

\* external: [...(buildOptions.external || []), ...externalArray]
UserBuildExternal(caller, arr) == caller \o arr

\* a vendor build that is told to leave the scanned externals out as well
VendorBuildExternalWithScanned(caller, arr) == caller \o arr

\* external: buildOptions.external (the vendor build)
VendorBuildExternal(caller, arr) == caller

\* the output directory as the file system sees it
OutdirPath == resolve(Cwd, options.outdir[1])

\* the options records of the invocations; skipVendorBundleGeneration and
\* existingVendorBundlePath are keys that obfuscatedBuild does not destructure:
\* they stay in buildOptions and no statement of obfuscatedBuild reads them
OptionRecords(skip, existing, external) ==
    [entrypoints : {None} \cup {Some(e) : e \in EntrypointLists},
     outdir : {None, Some(outdirName), Some(outdirHere)},
     bundleNodeModules : {None, Some(FALSE)},
     external : external,
     skipVendorBundleGeneration : skip,
     existingVendorBundlePath : existing]

InitWith(records) ==
    /\ fs \in SourceTrees
    /\ options \in records
    /\ pc = "start"
    /\ queue = <<>>
    /\ visited = {}
    /\ externals = <<>>
    /\ scanned = <<>>
    /\ externalArray = <<>>
    /\ userBuildResult = None
    /\ obfuscatedOutputs = <<>>
    /\ transformed = <<>>
    /\ depMapping = <<>>
    /\ vendorEntryPath = None
    /\ vendorOutput = None
    /\ rewritten = {}
    /\ result = None
    /\ error = ""
    /\ warnings = 0
    /\ events = <<>>

\* an invocation without the two keys and without an external list of its own
Init == InitWith(OptionRecords({None}, {None}, {None}))

\* a package the caller declares external: it is to stay out of every bundle
callerExternal == << <<"f","s","e","v","e","n","t","s">> >>

\* invocations with and without an external list of the caller
InitCallerExternals ==
    InitWith(OptionRecords({None}, {None}, {None, Some(callerExternal)}))

\* `${outdir}/vendor.js`
sharedVendorName == <<"d","i","s","t","/","v","e","n","d","o","r",".","j","s">>

\* an invocation that passes skipVendorBundleGeneration: true with an
\* existingVendorBundlePath
InitShared == InitWith(OptionRecords({Some(TRUE)}, {Some(sharedVendorName)}, {None}))

(***************************************************************************)
(* obfuscatedBuild: validation of the options, output directory, and the   *)
(* seeding of the closure scan.                                            *)
(***************************************************************************)
\* a check that accepts an empty list of entrypoints
EntrypointsUndefined(entrypoints) == entrypoints = None

\* !entrypoints || entrypoints.length === 0
EntrypointsMissing(entrypoints) ==
    IF entrypoints = None THEN TRUE ELSE Len(entrypoints[1]) = 0

\* !outdir
OutdirMissing(outdir) == IF outdir = None THEN TRUE ELSE Len(outdir[1]) = 0

RejectEntrypoints ==
    /\ pc = "start"
    /\ EntrypointsMissing(options.entrypoints)
    /\ pc' = "thrown"
    /\ error' = "At least one entrypoint is required"
    /\ UNCHANGED <<fs, options, queue, visited, externals, scanned, externalArray,
                   userBuildResult, obfuscatedOutputs, transformed, depMapping,
                   vendorEntryPath, vendorOutput, rewritten, result, warnings, events>>

RejectOutdir ==
    /\ pc = "start"
    /\ ~EntrypointsMissing(options.entrypoints)
    /\ OutdirMissing(options.outdir)
    /\ pc' = "thrown"
    /\ error' = "outdir is required for obfuscatedBuild"
    /\ UNCHANGED <<fs, options, queue, visited, externals, scanned, externalArray,
                   userBuildResult, obfuscatedOutputs, transformed, depMapping,
                   vendorEntryPath, vendorOutput, rewritten, result, warnings, events>>

\* if (!existsSync(outdir)) mkdirSync(outdir), then queue = entrypoints.map(resolve)
StartScan ==
    /\ pc = "start"
    /\ ~EntrypointsMissing(options.entrypoints)
    /\ ~OutdirMissing(options.outdir)
    /\ IF existsSync(fs, OutdirPath)
       THEN UNCHANGED <<fs, events>>
       ELSE /\ fs' = MakeDir(fs, OutdirPath)
            /\ events' = Append(events, Event("mkdir", OutdirPath, <<>>))
    /\ queue' = [k \in 1..Len(options.entrypoints[1]) |->
                    resolve(Cwd, options.entrypoints[1][k])]
    /\ pc' = "scan"
    /\ UNCHANGED <<options, visited, externals, scanned, externalArray,
                   userBuildResult, obfuscatedOutputs, transformed, depMapping,
                   vendorEntryPath, vendorOutput, rewritten, result, error, warnings>>

(***************************************************************************)
(* collectExternalDependencies: one iteration of the while loop per step.  *)
(***************************************************************************)
\* a loop that never finds a path in the visited set
AlreadyVisitedNever(vis, file) == FALSE

\* visited.has(file)
AlreadyVisited(vis, file) == file \in vis

\* a loop that forgets to record the path
MarkVisitedNot(vis, file) == vis

\* visited.add(file)
MarkVisited(vis, file) == vis \cup {file}

\* externals.add(dep): a Set keeps insertion order and no duplicates
SetAdd(set, dep) == IF dep \in Range(set) THEN set ELSE Append(set, dep)

\* a push that gives the queue up when the specifier did not resolve
EnqueueOrAbort(q, vis, resolvedLocal) ==
    IF resolvedLocal = Null THEN <<>>
    ELSE IF ~AlreadyVisited(vis, resolvedLocal) THEN Append(q, resolvedLocal)
    ELSE q

\* if (resolvedLocal && !visited.has(resolvedLocal)) queue.push(resolvedLocal)
Enqueue(q, vis, resolvedLocal) ==
    IF resolvedLocal # Null /\ ~AlreadyVisited(vis, resolvedLocal)
    THEN Append(q, resolvedLocal)
    ELSE q

\* for (const dep of allImports) { ... }
RECURSIVE ProcessDeps(_, _, _, _, _, _)
ProcessDeps(files, deps, file, ext, q, vis) ==
    IF deps = <<>> THEN [externals |-> ext, queue |-> q]
    ELSE LET dep == Head(deps)
         IN  IF ~isValidImportPath(dep)
             THEN ProcessDeps(files, Tail(deps), file, ext, q, vis)
             ELSE IF isExternal(dep)
                  THEN ProcessDeps(files, Tail(deps), file, SetAdd(ext, dep), q, vis)
                  ELSE ProcessDeps(files, Tail(deps), file, ext,
                           Enqueue(q, vis, resolveLocalImport(files, dep, file)), vis)

\* the try block for one file: read, strip comments, match, classify
ScanContent(files, file, ext, q, vis) ==
    ProcessDeps(files, AllImports(StripComments(files[file].text)), file, ext, q, vis)

\* the paths the scan may hand to readFileSync before it is taken to loop forever
MaxScans == 8

ScanFile ==
    /\ pc = "scan"
    /\ queue # <<>>
    /\ Len(scanned) < MaxScans
    /\ LET file == Head(queue)
           rest == Tail(queue)
       IN  IF AlreadyVisited(visited, file)
           THEN /\ queue' = rest
                /\ UNCHANGED <<visited, externals, scanned>>
           ELSE /\ visited' = MarkVisited(visited, file)
                /\ IF ~existsSync(fs, file)
                   THEN /\ queue' = rest
                        /\ UNCHANGED <<externals, scanned>>
                   ELSE /\ scanned' = Append(scanned, file)
                        /\ IF isDirectory(fs, file)
                           THEN \* readFileSync throws EISDIR, caught
                                /\ queue' = rest
                                /\ UNCHANGED externals
                           ELSE LET r == ScanContent(fs, file, externals, rest, visited')
                                IN  /\ externals' = r.externals
                                    /\ queue' = r.queue
    /\ UNCHANGED <<fs, options, pc, externalArray, userBuildResult, obfuscatedOutputs,
                   transformed, depMapping, vendorEntryPath, vendorOutput, rewritten,
                   result, error, warnings, events>>

\* the queue is empty: collectExternalDependencies returns and the first-party
\* Bun.build is called with the externals
FinishScan ==
    /\ pc = "scan"
    /\ queue = <<>>
    /\ externalArray' = externals
    /\ events' = Append(events, Event("build", Null,
                                       UserBuildExternal(CallerExternals, externals)))
    /\ pc' = "userBuild"
    /\ UNCHANGED <<fs, options, queue, visited, externals, scanned, userBuildResult,
                   obfuscatedOutputs, transformed, depMapping, vendorEntryPath,
                   vendorOutput, rewritten, result, error, warnings>>


(***************************************************************************)
(* Phase 1: the first-party host build answers.                            *)
(***************************************************************************)
Min(a, b) == IF a <= b THEN a ELSE b

ArtifactPath(k) == join(OutdirPath, BuildArtifacts[k].name)

\* the host build tool writes its first n artifacts into outdir
WriteArtifacts(files, n) ==
    [q \in (DOMAIN files) \cup {ArtifactPath(k) : k \in 1..n} |->
        IF \E k \in 1..n : ArtifactPath(k) = q
        THEN File(BuildArtifacts[CHOOSE k \in 1..n : ArtifactPath(k) = q].text)
        ELSE files[q]]

logsOfFailedBuild == <<"error: build failed">>

logsOfBuild == <<"build ok">>

\* a check that takes every first-party build for a success
BuildNeverFailed(build) == FALSE

\* if (!userBuildResult.success)
BuildFailed(build) == ~build.success

\* what obfuscatedBuild returns when the first-party build did not succeed
FailedBuildResult(build) == [success |-> FALSE, logs |-> build.logs, outputs |-> <<>>]

\* what follows "await Bun.build(...)" once it resolved with build
AfterUserBuild(build) ==
    IF BuildFailed(build)
    THEN /\ result' = Some(FailedBuildResult(build))
         /\ pc' = "returned"
    ELSE /\ pc' = "obfuscate"
         /\ UNCHANGED result

\* the first-party build resolves with success: n artifacts were written
UserBuildSucceeds ==
    /\ pc = "userBuild"
    /\ \E n \in 0..Min(MaxOutputs, Len(BuildArtifacts)) :
          /\ fs' = WriteArtifacts(fs, n)
          /\ userBuildResult' =
                 Some([success |-> TRUE, logs |-> logsOfBuild,
                       outputs |-> [k \in 1..n |-> ArtifactPath(k)]])
    /\ AfterUserBuild(userBuildResult'[1])
    /\ UNCHANGED <<options, queue, visited, externals, scanned, externalArray,
                   obfuscatedOutputs, transformed, depMapping, vendorEntryPath,
                   vendorOutput, rewritten, error, warnings, events>>

\* the first-party build resolves without success: nothing was written
UserBuildFails ==
    /\ pc = "userBuild"
    /\ userBuildResult' =
           Some([success |-> FALSE, logs |-> logsOfFailedBuild, outputs |-> <<>>])
    /\ AfterUserBuild(userBuildResult'[1])
    /\ UNCHANGED <<fs, options, queue, visited, externals, scanned, externalArray,
                   obfuscatedOutputs, transformed, depMapping, vendorEntryPath,
                   vendorOutput, rewritten, error, warnings, events>>

\* await Bun.build(...) rejects: the rejection leaves obfuscatedBuild
UserBuildThrows ==
    /\ pc = "userBuild"
    /\ error' = "first-party build threw"
    /\ pc' = "thrown"
    /\ UNCHANGED <<fs, options, queue, visited, externals, scanned, externalArray,
                   userBuildResult, obfuscatedOutputs, transformed, depMapping,
                   vendorEntryPath, vendorOutput, rewritten, result, warnings, events>>

(***************************************************************************)
(* Phase 2: one iteration of "for (const output of userBuildResult.outputs)"*)
(***************************************************************************)
\* output.path.endsWith(".js") || output.path.endsWith(".mjs")
IsJsPath(path) == EndsWith(path, txtDotJs) \/ EndsWith(path, txtDotMjs)

\* the output the loop is at
CurrentOutput == userBuildResult[1].outputs[Len(obfuscatedOutputs) + 1]

InObfuscationLoop ==
    /\ pc = "obfuscate"
    /\ Len(obfuscatedOutputs) < Len(userBuildResult[1].outputs)

Remember(path, text) ==
    [q \in (DOMAIN transformed) \cup {path} |->
        IF q = path THEN text ELSE transformed[q]]

\* a non-JS output, or a JS output whose text is blank, passes through
PassThrough ==
    /\ InObfuscationLoop
    /\ \/ ~IsJsPath(CurrentOutput)
       \/ Trim(fs[CurrentOutput].text) = <<>>
    /\ obfuscatedOutputs' = Append(obfuscatedOutputs, CurrentOutput)
    /\ transformed' = Remember(CurrentOutput, fs[CurrentOutput].text)
    /\ UNCHANGED <<fs, options, pc, queue, visited, externals, scanned, externalArray,
                   userBuildResult, depMapping, vendorEntryPath, vendorOutput,
                   rewritten, result, error, warnings, events>>

\* JavaScriptObfuscator.obfuscate answers and its code is written over the output
Obfuscate ==
    /\ InObfuscationLoop
    /\ IsJsPath(CurrentOutput)
    /\ Trim(fs[CurrentOutput].text) # <<>>
    /\ \E code \in EngineOutputs :
          /\ fs' = WriteFile(fs, CurrentOutput, code)
          /\ transformed' = Remember(CurrentOutput, code)
    /\ obfuscatedOutputs' = Append(obfuscatedOutputs, CurrentOutput)
    /\ events' = Append(events, Event("obfuscate", CurrentOutput, <<>>))
    /\ UNCHANGED <<options, pc, queue, visited, externals, scanned, externalArray,
                   userBuildResult, depMapping, vendorEntryPath, vendorOutput,
                   rewritten, result, error, warnings>>

\* a catch block that logs the error and lets the loop go on
AfterEngineErrorSwallowed == "obfuscate"

\* where obfuscatedBuild is after "catch (error) { console.error(...); throw error; }"
AfterEngineError == "thrown"

\* JavaScriptObfuscator.obfuscate raises: console.error, then throw error
ObfuscateThrows ==
    /\ InObfuscationLoop
    /\ IsJsPath(CurrentOutput)
    /\ Trim(fs[CurrentOutput].text) # <<>>
    /\ events' = Append(events, Event("obfuscate", CurrentOutput, <<>>))
    /\ error' = "obfuscation failed"
    /\ pc' = AfterEngineError
    /\ UNCHANGED <<fs, options, queue, visited, externals, scanned, externalArray,
                   userBuildResult, obfuscatedOutputs, transformed, depMapping,
                   vendorEntryPath, vendorOutput, rewritten, result, warnings>>

(***************************************************************************)
(* Phase 3: the vendor bundle and the import rewriter.                     *)
(***************************************************************************)
\* a guard that does not read the bundleNodeModules option
ShouldBundleVendorAlways(bundle, arr) == Len(arr) > 0

\* if (bundleNodeModules && externalArray.length > 0)
ShouldBundleVendor(bundle, arr) == bundle /\ Len(arr) > 0

\* what obfuscatedBuild returns after phase 2
BuildResult(build, outputs, vendor) ==
    [success |-> TRUE, logs |-> build.logs, outputs |-> outputs, vendorOutput |-> vendor]

\* a loop that is left after its first iteration
AfterFirstArtifact ==
    /\ pc = "obfuscate"
    /\ Len(obfuscatedOutputs) >= 1

\* the for loop over userBuildResult.outputs is over
AfterObfuscationLoop ==
    /\ pc = "obfuscate"
    /\ Len(obfuscatedOutputs) = Len(userBuildResult[1].outputs)

\* phase 3 is skipped: return { success: true, ..., vendorOutput: undefined }
ReturnWithoutVendor ==
    /\ AfterObfuscationLoop
    /\ ~ShouldBundleVendor(bundleNodeModules, externalArray)
    /\ result' = Some(BuildResult(userBuildResult[1], obfuscatedOutputs, vendorOutput))
    /\ pc' = "returned"
    /\ UNCHANGED <<fs, options, queue, visited, externals, scanned, externalArray,
                   userBuildResult, obfuscatedOutputs, transformed, depMapping,
                   vendorEntryPath, vendorOutput, rewritten, error, warnings, events>>

\* depMapping is built, the vendor entry is written and the vendor Bun.build called
WriteVendorEntry ==
    /\ AfterObfuscationLoop
    /\ ShouldBundleVendor(bundleNodeModules, externalArray)
    /\ depMapping' = BuildDepMapping(externalArray)
    /\ \E now \in Times :
          LET path == VendorEntryPathAt(options.entrypoints[1], now)
          IN  /\ vendorEntryPath' = Some(path)
              /\ fs' = WriteFile(fs, path, VendorEntryContent(externalArray))
              /\ events' = events \o <<Event("writeEntry", path, externalArray),
                                       Event("build", path,
                                             VendorBuildExternal(CallerExternals,
                                                                 externalArray))>>
    /\ pc' = "vendorBuild"
    /\ UNCHANGED <<options, queue, visited, externals, scanned, externalArray,
                   userBuildResult, obfuscatedOutputs, transformed, vendorOutput,
                   rewritten, result, error, warnings>>

VendorBundlePath == join(OutdirPath, nodeModulesBundleName)

\* the vendor bundle, as far as the model reads it
vendorBundleText == <<"/", "/", "v">>

\* vendorOutput = await Bun.build(...) resolves, with success or without
VendorBuildResolves ==
    /\ pc = "vendorBuild"
    /\ \/ /\ vendorOutput' = Some([success |-> TRUE, logs |-> logsOfBuild,
                                   outputs |-> <<VendorBundlePath>>])
          /\ fs' = WriteFile(fs, VendorBundlePath, vendorBundleText)
       \/ /\ vendorOutput' = Some([success |-> FALSE, logs |-> logsOfFailedBuild,
                                   outputs |-> <<>>])
          /\ UNCHANGED fs
    /\ pc' = "unlinkTry"
    /\ UNCHANGED <<options, queue, visited, externals, scanned, externalArray,
                   userBuildResult, obfuscatedOutputs, transformed, depMapping,
                   vendorEntryPath, rewritten, result, error, warnings, events>>

\* await Bun.build(...) rejects: the catch block warns and goes on to unlink
VendorBuildThrows ==
    /\ pc = "vendorBuild"
    /\ warnings' = warnings + 1
    /\ pc' = "unlinkCatch"
    /\ UNCHANGED <<fs, options, queue, visited, externals, scanned, externalArray,
                   userBuildResult, obfuscatedOutputs, transformed, depMapping,
                   vendorEntryPath, vendorOutput, rewritten, result, error, events>>

\* the .js/.mjs members of obfuscatedOutputs, in order
JsOutputs == SelectSeq(obfuscatedOutputs, IsJsPath)

\* the first k artifacts of outs rewritten in place
RECURSIVE RewriteArtifacts(_, _, _, _, _)
RewriteArtifacts(files, outs, k, arr, mapping) ==
    IF k = 0 THEN files
    ELSE LET before == RewriteArtifacts(files, outs, k - 1, arr, mapping)
         IN  WriteFile(before, outs[k], RewriteCode(before[outs[k]].text, arr, mapping))

\* a check that takes every vendor build for a success
VendorNeverFailed(vendor) == FALSE

\* if (!vendorOutput.success): whether the rewriter is to be skipped
VendorFailed(vendor) == ~vendor.success

\* the unlink is awaited; the vendor build had no success: two warnings, return
CleanupAfterFailedVendor ==
    /\ pc = "unlinkTry"
    /\ VendorFailed(vendorOutput[1])
    /\ \E fulfilled \in BOOLEAN :
          /\ fs' = UnlinkQuietly(fs, vendorEntryPath[1], fulfilled)
          /\ events' = Append(events, UnlinkEvent(fs, vendorEntryPath[1], fulfilled))
    /\ warnings' = warnings + 2
    /\ result' = Some(BuildResult(userBuildResult[1], obfuscatedOutputs, vendorOutput))
    /\ pc' = "returned"
    /\ UNCHANGED <<options, queue, visited, externals, scanned, externalArray,
                   userBuildResult, obfuscatedOutputs, transformed, depMapping,
                   vendorEntryPath, vendorOutput, rewritten, error>>

\* the unlink is awaited and every .js/.mjs output is rewritten; return
CleanupAndRewrite ==
    /\ pc = "unlinkTry"
    /\ ~VendorFailed(vendorOutput[1])
    /\ \E fulfilled \in BOOLEAN :
          /\ fs' = RewriteArtifacts(UnlinkQuietly(fs, vendorEntryPath[1], fulfilled),
                                    JsOutputs, Len(JsOutputs), externalArray, depMapping)
          /\ events' = events \o <<UnlinkEvent(fs, vendorEntryPath[1], fulfilled),
                                   Event("rewrite", Null, JsOutputs)>>
    /\ rewritten' = Range(JsOutputs)
    /\ result' = Some(BuildResult(userBuildResult[1], obfuscatedOutputs, vendorOutput))
    /\ pc' = "returned"
    /\ UNCHANGED <<options, queue, visited, externals, scanned, externalArray,
                   userBuildResult, obfuscatedOutputs, transformed, depMapping,
                   vendorEntryPath, vendorOutput, error, warnings>>

\* readFileSync or writeFileSync throws at the (k+1)-th .js/.mjs output: the ones
\* before it are rewritten, the catch block warns and goes on to unlink again
RewriteThrows ==
    /\ pc = "unlinkTry"
    /\ ~VendorFailed(vendorOutput[1])
    /\ \E k \in 0..(Len(JsOutputs) - 1), fulfilled \in BOOLEAN :
          /\ fs' = RewriteArtifacts(UnlinkQuietly(fs, vendorEntryPath[1], fulfilled),
                                    JsOutputs, k, externalArray, depMapping)
          /\ rewritten' = {JsOutputs[j] : j \in 1..k}
          /\ events' = events \o <<UnlinkEvent(fs, vendorEntryPath[1], fulfilled),
                                   Event("rewrite", Null, SubSeq(JsOutputs, 1, k))>>
    /\ warnings' = warnings + 1
    /\ pc' = "unlinkCatch"
    /\ UNCHANGED <<options, queue, visited, externals, scanned, externalArray,
                   userBuildResult, obfuscatedOutputs, transformed, depMapping,
                   vendorEntryPath, vendorOutput, result, error>>

\* the catch block's unlink; then return { success: true, ... }
CleanupAfterError ==
    /\ pc = "unlinkCatch"
    /\ \E fulfilled \in BOOLEAN :
          /\ fs' = UnlinkQuietly(fs, vendorEntryPath[1], fulfilled)
          /\ events' = Append(events, UnlinkEvent(fs, vendorEntryPath[1], fulfilled))
    /\ result' = Some(BuildResult(userBuildResult[1], obfuscatedOutputs, vendorOutput))
    /\ pc' = "returned"
    /\ UNCHANGED <<options, queue, visited, externals, scanned, externalArray,
                   userBuildResult, obfuscatedOutputs, transformed, depMapping,
                   vendorEntryPath, vendorOutput, rewritten, error, warnings>>

Next ==
    \/ RejectEntrypoints
    \/ RejectOutdir
    \/ StartScan
    \/ ScanFile
    \/ FinishScan
    \/ UserBuildSucceeds
    \/ UserBuildFails
    \/ UserBuildThrows
    \/ PassThrough
    \/ Obfuscate
    \/ ObfuscateThrows
    \/ ReturnWithoutVendor
    \/ WriteVendorEntry
    \/ VendorBuildResolves
    \/ VendorBuildThrows
    \/ CleanupAfterFailedVendor
    \/ CleanupAndRewrite
    \/ RewriteThrows
    \/ CleanupAfterError

Spec == Init /\ [][Next]_vars

SpecShared == InitShared /\ [][Next]_vars

SpecCallerExternals == InitCallerExternals /\ [][Next]_vars


(***************************************************************************)
(* Reference notions for the closure scan's claims, independent of the     *)
(* source's comment-stripping patterns.                                    *)
(***************************************************************************)
\* where the lexical element that opens at m ends (the index after it): a line
\* comment ends before the line terminator, a block comment after its "*/", a
\* string literal after its closing quote; an unterminated one runs to the end
LexicalEnd(t, m) ==
    IF StartsWithAt(t, m, lineCommentOpen) THEN LineEnd(t, m + 2)
    ELSE IF StartsWithAt(t, m, blockCommentOpen)
         THEN LET c == IndexOfFrom(t, blockCommentClose, m + 2)
              IN  IF c = 0 THEN Len(t) + 1 ELSE c + 2
         ELSE LET c == FirstIn(t, m + 1, {t[m]})
              IN  IF c = 0 THEN Len(t) + 1 ELSE c + 1

\* the text from i on without its comments, as a JavaScript lexer delimits them:
\* "//" and "/*" open a comment only outside string literals
RECURSIVE WithoutCommentsFrom(_, _)
WithoutCommentsFrom(t, i) ==
    LET m == MinOf({j \in i..Len(t) :
                      \/ StartsWithAt(t, j, lineCommentOpen)
                      \/ StartsWithAt(t, j, blockCommentOpen)
                      \/ t[j] \in Quotes})
    IN  IF m = 0 THEN SubSeq(t, i, Len(t))
        ELSE IF t[m] \in Quotes
             THEN SubSeq(t, i, LexicalEnd(t, m) - 1)
                      \o WithoutCommentsFrom(t, LexicalEnd(t, m))
             ELSE SubSeq(t, i, m - 1) \o WithoutCommentsFrom(t, LexicalEnd(t, m))

WithoutComments(t) == WithoutCommentsFrom(t, 1)

IsFile(files, p) == existsSync(files, p) /\ ~isDirectory(files, p)

\* the specifiers that occur outside comments in file p
SpecifiersOutsideComments(files, p) ==
    {d \in Range(AllImports(WithoutComments(files[p].text))) : isValidImportPath(d)}

\* the specifiers that occur in file p, comments included
SpecifiersAnywhere(files, p) ==
    {d \in Range(AllImports(files[p].text)) : isValidImportPath(d)}

\* the files that the local specifiers of file p resolve to
LocalTargets(files, p) ==
    {resolveLocalImport(files, d, p) :
        d \in {e \in SpecifiersOutsideComments(files, p) : ~isExternal(e)}}
    \ {Null}

\* the files reachable from the set S through local specifiers
RECURSIVE ReachableFrom(_, _)
ReachableFrom(files, S) ==
    LET more == S \cup UNION {LocalTargets(files, p) : p \in {q \in S : IsFile(files, q)}}
    IN  IF more = S THEN S ELSE ReachableFrom(files, more)

EntryPaths ==
    IF EntrypointsMissing(options.entrypoints) THEN {}
    ELSE {resolve(Cwd, e) : e \in Range(options.entrypoints[1])}

ReachableFiles == {p \in ReachableFrom(fs, EntryPaths) : IsFile(fs, p)}

\* the external specifiers of the closure, by the claim's three conditions
ExpectedExternals ==
    UNION {{d \in SpecifiersOutsideComments(fs, p) : isExternal(d)} : p \in ReachableFiles}

\* collectExternalDependencies has returned
ScanReturned == \E k \in 1..Len(events) : events[k].op = "build"

\* C1: once the closure scan has returned, its result is exactly the set of
\* valid, external specifiers that occur outside comments in the files reachable
\* from the entrypoints through resolvable local specifiers.
C1_ExternalsAreExactlyTheClosure ==
    ScanReturned => Range(externalArray) = ExpectedExternals

TimesScanned(p) == Cardinality({k \in 1..Len(scanned) : scanned[k] = p})

\* C2: every step that scans a path scans one that was not in the visited set
\* and was never scanned before, and puts it into the visited set: no path is
\* scanned twice, however often it was enqueued.
C2_EachPathScannedAtMostOnce ==
    [][scanned' # scanned =>
          \E p \in visited' :
             /\ scanned' = Append(scanned, p)
             /\ p \notin visited
             /\ TimesScanned(p) = 0]_vars

\* C2 witness: a path that was scanned already waits in the queue once more
C2_Witness_ScannedPathQueuedAgain ==
    /\ pc = "scan"
    /\ \E p \in Range(queue) : p \in visited /\ TimesScanned(p) = 1

\* the files that scanning file p alone puts into the queue
ImportedFiles(p) ==
    IF IsFile(fs, p) THEN Range(ScanContent(fs, p, <<>>, <<>>, {}).queue) ELSE {}

\* the files of the graph that the scan walks
RECURSIVE WalkedFrom(_)
WalkedFrom(S) ==
    LET more == S \cup UNION {ImportedFiles(p) : p \in S}
    IN  IF more = S THEN S ELSE WalkedFrom(more)

\* a file that imports itself, or two files that import each other
OnImportCycle(p) ==
    \/ p \in ImportedFiles(p)
    \/ \E q \in ImportedFiles(p) : q # p /\ p \in ImportedFiles(q)

ScanFinishedOnce ==
    /\ pc # "scan"
    /\ queue = <<>>
    /\ \A p \in WalkedFrom(EntryPaths) : IsFile(fs, p) => TimesScanned(p) = 1

\* C3: a closure scan that has started eventually empties its queue and returns,
\* with every file that it walks, those on import cycles included, scanned
\* exactly once.
C3_ScanTerminates == (pc = "scan") ~> ScanFinishedOnce

\* C3 witness: the scan has returned after scanning a file on an import cycle
C3_Witness_CycleScanned ==
    /\ ScanFinishedOnce
    /\ \E p \in Range(scanned) : OnImportCycle(p)
    /\ \E p, q \in Range(scanned) : q # p /\ q \in ImportedFiles(p) /\ p \in ImportedFiles(q)

\* the specifiers whose every occurrence in the scanned files lies in a comment
CommentOnlySpecifiers ==
    UNION {SpecifiersAnywhere(fs, p) : p \in {q \in Range(scanned) : IsFile(fs, q)}}
    \ UNION {SpecifiersOutsideComments(fs, p) : p \in {q \in Range(scanned) : IsFile(fs, q)}}

\* C4: a specifier whose only occurrences in the scanned files lie inside
\* comments is never a member of the external set.
C4_CommentOnlySpecifierIsAbsent ==
    \A d \in CommentOnlySpecifiers : d \notin Range(externals)

(***************************************************************************)
(* The alias mapping, the vendor entry file and the early exits.           *)
(***************************************************************************)
Injective(f) == \A d, e \in DOMAIN f : f[d] = f[e] => d = e

\* the alias of the specifier at the 1-based position k of externalArray
AliasAt(k) == AliasName(k - 1)

\* C5: at every step of a build the alias mapping is injective and gives the
\* specifier at position k of the external list the alias _dep(k-1), and a
\* specifier that has an alias keeps that alias.
C5_AliasMappingInjectiveAndStable ==
    [][/\ Injective(depMapping')
       /\ DOMAIN depMapping' \in {{}, Range(externalArray')}
       /\ \A k \in 1..Len(externalArray') :
             externalArray'[k] \in DOMAIN depMapping'
                => depMapping'[externalArray'[k]] = AliasAt(k)
       /\ \A d \in DOMAIN depMapping :
             d \in DOMAIN depMapping' /\ depMapping'[d] = depMapping[d]]_vars

\* C5 witness: the build has returned with two specifiers under two aliases
C5_Witness_TwoAliases ==
    /\ pc = "returned"
    /\ Cardinality(DOMAIN depMapping) >= 2
    /\ \E d, e \in DOMAIN depMapping : depMapping[d] # depMapping[e]

\* obfuscatedBuild has returned or thrown
Finished == pc \in {"returned", "thrown"}

\* the vendor entry file that this build wrote is still there
EntryFileLeft ==
    IF vendorEntryPath = None THEN FALSE ELSE existsSync(fs, vendorEntryPath[1])

\* the calls of fs.unlink on the vendor entry file, by their outcome
UnlinksOfEntry(op) ==
    IF vendorEntryPath = None THEN {}
    ELSE {k \in 1..Len(events) :
             events[k].op = op /\ events[k].path = vendorEntryPath[1]}

VendorBuildThrew == vendorEntryPath # None /\ vendorOutput = None /\ warnings > 0

\* the vendor Bun.build resolved with success = false
VendorBuildUnsuccessful ==
    IF vendorOutput = None THEN FALSE ELSE ~vendorOutput[1].success

\* every output of the first-party build holds what phase 2 left in it
ArtifactsAsTransformed ==
    \A k \in 1..Len(obfuscatedOutputs) :
        /\ existsSync(fs, obfuscatedOutputs[k])
        /\ fs[obfuscatedOutputs[k]].text = transformed[obfuscatedOutputs[k]]

RewriteEvents == {k \in 1..Len(events) : events[k].op = "rewrite"}

\* C7: once obfuscatedBuild has returned after a vendor build that resolved
\* without success or rejected, its result has success = true and the
\* first-party outputs, a warning was logged, and the import rewriter touched no
\* output: each holds the text phase 2 left in it.
C7_VendorFailureLeavesArtifactsAlone ==
    (pc = "returned" /\ (VendorBuildUnsuccessful \/ VendorBuildThrew)) =>
        /\ result[1].success
        /\ result[1].outputs = userBuildResult[1].outputs
        /\ result[1].logs = userBuildResult[1].logs
        /\ warnings >= 1
        /\ rewritten = {}
        /\ RewriteEvents = {}
        /\ ArtifactsAsTransformed

\* C7 witness: a build with an output that imports an external package has
\* returned after an unsuccessful vendor build
C7_Witness_ReturnedAfterFailedVendor ==
    /\ pc = "returned"
    /\ VendorBuildUnsuccessful
    /\ \E k \in 1..Len(JsOutputs) :
          /\ fs[JsOutputs[k]].text \in EngineOutputs
          /\ RewriteCode(fs[JsOutputs[k]].text, externalArray, depMapping)
                 # fs[JsOutputs[k]].text

BuildEvents == {k \in 1..Len(events) : events[k].op = "build"}

WriteEntryEvents == {k \in 1..Len(events) : events[k].op = "writeEntry"}

\* bundleNodeModules is false, or the closure scan returned no external
VendorStepOff ==
    \/ options.bundleNodeModules = Some(FALSE)
    \/ ScanReturned /\ externalArray = << >>

\* C8: with bundleNodeModules false or an empty external set, no vendor entry
\* file is written, the host bundler is called at most once, the import
\* rewriter does not run, every output holds the text phase 2 left in it, and
\* the result that is returned has no vendorOutput.
C8_NoVendorStepWhenOffOrEmpty ==
    VendorStepOff =>
        /\ vendorEntryPath = None
        /\ WriteEntryEvents = {}
        /\ Cardinality(BuildEvents) <= 1
        /\ \A p \in DOMAIN fs : ~Includes(p, txtVendorEntryPrefix)
        /\ rewritten = {}
        /\ RewriteEvents = {}
        /\ ArtifactsAsTransformed
        /\ (pc = "returned" /\ result[1].success) => result[1].vendorOutput = None

\* C8 witness: a build whose scan found externals and whose engine output
\* imports them has returned with bundleNodeModules false
C8_Witness_ReturnedWithBundlingOff ==
    /\ pc = "returned"
    /\ options.bundleNodeModules = Some(FALSE)
    /\ externalArray # << >>
    /\ result[1].success
    /\ \E k \in 1..Len(JsOutputs) : fs[JsOutputs[k]].text \in EngineOutputs

\* entrypoints is missing or empty, or outdir is missing
RequiredOptionMissing ==
    \/ options.entrypoints = None
    \/ options.entrypoints = Some(<< >>)
    \/ options.outdir = None

\* C9: with entrypoints missing or empty, or outdir missing, the only step
\* obfuscatedBuild takes is to throw: the file system is the source tree it
\* found, no path was queued or scanned, and neither the host bundler nor the
\* transformation engine was called.
C9_MissingOptionThrowsAtOnce ==
    RequiredOptionMissing =>
        /\ pc \in {"start", "thrown"}
        /\ pc = "thrown" => error # ""
        /\ fs \in SourceTrees
        /\ queue = << >> /\ visited = {} /\ scanned = << >>
        /\ events = << >>
        /\ userBuildResult = None /\ transformed = << >> /\ result = None

\* C9 witness: obfuscatedBuild has thrown for entrypoints given and outdir
\* missing, where the source tree has files to scan
C9_Witness_ThrownForMissingOutdir ==
    /\ pc = "thrown"
    /\ options.outdir = None
    /\ IF options.entrypoints = None THEN FALSE
       ELSE \E k \in 1..Len(options.entrypoints[1]) :
               existsSync(fs, resolve(Cwd, options.entrypoints[1][k]))

\* the first-party Bun.build resolved with success = false
UserBuildUnsuccessful ==
    IF userBuildResult = None THEN FALSE ELSE ~userBuildResult[1].success

ObfuscateEvents == {k \in 1..Len(events) : events[k].op = "obfuscate"}

\* C10: once the first-party build has resolved with success = false,
\* obfuscatedBuild has returned success = false with that build's logs and no
\* outputs; the transformation engine, the vendor build and the import
\* rewriter were not run and no vendor entry file was written.
C10_FailedBuildReturnsAtOnce ==
    UserBuildUnsuccessful =>
        /\ pc = "returned"
        /\ result = Some([success |-> FALSE, logs |-> userBuildResult[1].logs,
                          outputs |-> << >>])
        /\ ObfuscateEvents = {} /\ transformed = << >>
        /\ Cardinality(BuildEvents) = 1
        /\ vendorEntryPath = None /\ WriteEntryEvents = {}
        /\ rewritten = {} /\ RewriteEvents = {}

\* C10 witness: the first-party build of a tree with externals, with vendor
\* bundling on, resolved without success and obfuscatedBuild has returned
C10_Witness_ReturnedAfterFailedBuild ==
    /\ pc = "returned"
    /\ UserBuildUnsuccessful
    /\ bundleNodeModules
    /\ externalArray # << >>
    /\ result[1].logs = logsOfFailedBuild


\* the transformation engine raised on an artifact
EngineRaised == error = "obfuscation failed"

\* the artifact the phase 2 loop was at when it stopped, and those after it
NotPushed ==
    IF userBuildResult = None THEN {}
    ELSE (Len(obfuscatedOutputs) + 1)..Len(userBuildResult[1].outputs)

\* C11: once the transformation engine has raised, obfuscatedBuild has thrown
\* that error and returned nothing; the artifact it raised on and every later
\* one hold the text the host build wrote, the engine was called on no later
\* artifact, and no vendor entry, vendor build or rewrite has happened.
C11_EngineErrorAborts ==
    EngineRaised =>
        /\ pc = "thrown" /\ result = None
        /\ events[Len(events)] =
               Event("obfuscate", ArtifactPath(Len(obfuscatedOutputs) + 1), << >>)
        /\ \A k \in NotPushed :
              /\ fs[ArtifactPath(k)].text = BuildArtifacts[k].text
              /\ \A j \in ObfuscateEvents :
                    events[j].path = ArtifactPath(k) => k = Len(obfuscatedOutputs) + 1
        /\ Cardinality(BuildEvents) = 1
        /\ vendorEntryPath = None /\ WriteEntryEvents = {} /\ vendorOutput = None
        /\ depMapping = << >>
        /\ rewritten = {} /\ RewriteEvents = {}

\* C11 witness: the engine raised on the first artifact of a build with vendor
\* bundling on and externals found, and a later non-blank .js artifact waits
C11_Witness_RaisedBeforeLaterArtifact ==
    /\ EngineRaised
    /\ pc = "thrown"
    /\ bundleNodeModules /\ externalArray # << >>
    /\ \E k \in NotPushed :
          /\ k > Len(obfuscatedOutputs) + 1
          /\ IsJsPath(ArtifactPath(k))
          /\ Trim(fs[ArtifactPath(k)].text) # << >>

\* the first-party Bun.build resolved with success = true
UserBuildSucceeded ==
    IF userBuildResult = None THEN FALSE ELSE userBuildResult[1].success

\* the invocation asks to reuse a shared vendor artifact
ReusesSharedVendor ==
    /\ options.skipVendorBundleGeneration = Some(TRUE)
    /\ options.existingVendorBundlePath # None

\* C12: an invocation that reuses a shared vendor artifact writes no vendor
\* entry and calls the host bundler once only, and where it has externals to
\* rewrite it returns after a successful first-party build only if the artifact
\* exists at the given path, with every .js/.mjs output rewritten.
C12_SharedVendorReusedNotGenerated ==
    ReusesSharedVendor =>
        /\ vendorEntryPath = None /\ WriteEntryEvents = {}
        /\ Cardinality(BuildEvents) <= 1
        /\ (pc = "returned" /\ UserBuildSucceeded
                /\ bundleNodeModules /\ externalArray # << >>) =>
              /\ existsSync(fs, resolve(Cwd, options.existingVendorBundlePath[1]))
              /\ rewritten = Range(JsOutputs)

\* the characters of the bindings of an import declaration: identifiers ($
\* included), "*", braces, commas and white space
JsBindingChars == WordChars \cup {"$", "*", "{", "}", ","} \cup Whitespace

\* an import declaration with bindings opens at i and names dep as its module:
\* import <bindings> from "dep"
ImportsFromAt(t, i, dep) ==
    /\ StartsWithAt(t, i, kwImport)
    /\ LET q == RunEnd(t, i + 6, JsBindingChars)
           bindings == Trim(SubSeq(t, i + 6, q - 1))
       IN  /\ Len(bindings) > Len(kwFrom)
           /\ EndsWith(bindings, kwFrom)
           /\ QuotedDepEnd(t, q, dep) # 0

\* the text still imports or requires dep
StillBinds(t, dep) ==
    \E i \in 1..Len(t) : ImportsFromAt(t, i, dep) \/ RequireDepAt(t, i, dep).ok

\* import { _dep0, _dep1, ... } from "./vendor.js"; and a line feed
ExpectedVendorImport ==
    <<"i","m","p","o","r","t"," ","{"," ">>
        \o Join([k \in 1..Len(externalArray) |-> AliasAt(k)], <<",", " ">>)
        \o <<" ","}"," ","f","r","o","m"," ","\"",".","/">> \o nodeModulesBundleName
        \o <<"\"",";","\n">>

\* the vendor build succeeded and the import rewriter ran to its end
RewriteCompleted ==
    /\ pc = "returned"
    /\ IF vendorOutput = None THEN FALSE ELSE vendorOutput[1].success
    /\ warnings = 0

\* C13: once the import rewriter has run to its end after a successful vendor
\* build, every .js/.mjs output begins with the vendor import statement, which
\* occurs in it once only, and holds no import declaration with bindings and no
\* require call that names a specifier of the external set.
C13_ArtifactsImportOnlyFromVendor ==
    RewriteCompleted =>
        \A k \in 1..Len(JsOutputs) :
            LET text == fs[JsOutputs[k]].text
            IN  /\ StartsWith(text, ExpectedVendorImport)
                /\ \A i \in 2..Len(text) : ~StartsWithAt(text, i, ExpectedVendorImport)
                /\ \A d \in Range(externalArray) : ~StillBinds(text, d)

\* the first call of Bun.build, 0 before it
FirstBuildEvent == MinOf(BuildEvents)

\* C14: Bun.build is called at most twice; the first call builds with the
\* caller's external list followed by the external set of the scan, in its
\* order, and a second call builds the vendor entry file alone with exactly the
\* caller's external list.
C14_BuildCallsAndTheirExternals ==
    /\ Cardinality(BuildEvents) <= 2
    /\ \A k \in BuildEvents :
          IF k = FirstBuildEvent
          THEN events[k] = Event("build", Null, CallerExternals \o externals)
          ELSE /\ vendorEntryPath # None
               /\ events[k] = Event("build", vendorEntryPath[1], CallerExternals)

\* C14 witness: a caller with an external list of its own has had both builds
\* called, the first with externals from the scan
C14_Witness_TwoBuildsWithCallerExternals ==
    /\ Cardinality(BuildEvents) = 2
    /\ options.external = Some(callerExternal)
    /\ externals # << >>
    /\ pc = "returned"

\* ---------------------------------------------------------------------
\* javascriptObfuscator: the onLoad plugin
\* ---------------------------------------------------------------------

\* the two shapes of RegExp the plugin is given here: /<word>$/ and /<word>/
SuffixPattern(word) == [kind |-> "suffix", word |-> word]

SubstringPattern(word) == [kind |-> "substring", word |-> word]

\* RegExp.prototype.test
Test(regex, path) ==
    IF regex.kind = "suffix" THEN EndsWith(path, regex.word)
    ELSE Includes(path, regex.word)

\* /\.(js|mjs)$/
DefaultFilter(path) ==
    \/ EndsWith(path, <<".", "j", "s">>)
    \/ EndsWith(path, <<".", "m", "j", "s">>)

\* const filter = include ?? /\.(js|mjs)$/, applied by the bundler to a path
FilterMatches(include, path) ==
    IF include = None THEN DefaultFilter(path) ELSE Test(include[1], path)

ExcludedNever(exclude, path) == FALSE

\* exclude && exclude.test(args.path)
Excluded(exclude, path) ==
    IF exclude = None THEN FALSE ELSE Test(exclude[1], path)

BlankNever(source) == FALSE

\* !source.trim()
Blank(source) == Trim(source) = <<>>

pluginPathJs == <<"/", "a", ".", "j", "s">>

pluginPathMjs == <<"/", "b", ".", "m", "j", "s">>

pluginPathTs == <<"/", "c", ".", "t", "s">>

pluginPathMin == <<"/", "a", ".", "m", "i", "n", ".", "j", "s">>

\* the modules the bundler loads, in the order it loads them
PluginLoadOrder == <<pluginPathJs, pluginPathTs, pluginPathMin, pluginPathMjs>>

PluginSources == {compiledCode, compiledBlank}

PluginTrees ==
    {[p \in Range(PluginLoadOrder) |-> File(src[p])] :
        src \in [Range(PluginLoadOrder) -> PluginSources]}

PluginOptionRecords ==
    [include : {None, Some(SuffixPattern(<<".", "t", "s">>))},
     exclude : {None, Some(SubstringPattern(<<".", "m", "i", "n", ".">>))}]

InitPlugin ==
    /\ fs \in PluginTrees
    /\ options \in PluginOptionRecords
    /\ pc = "load"
    /\ queue = PluginLoadOrder
    /\ visited = {}
    /\ externals = <<>>
    /\ scanned = <<>>
    /\ externalArray = <<>>
    /\ userBuildResult = None
    /\ obfuscatedOutputs = <<>>
    /\ transformed = <<>>
    /\ depMapping = <<>>
    /\ vendorEntryPath = None
    /\ vendorOutput = None
    /\ rewritten = {}
    /\ result = None
    /\ error = ""
    /\ warnings = 0
    /\ events = <<>>

\* a module whose path the filter does not match: the callback is not called
\* and the bundler loads the file itself
LoadWithoutPlugin ==
    /\ pc = "load"
    /\ queue # <<>>
    /\ ~FilterMatches(options.include, Head(queue))
    /\ transformed' = Remember(Head(queue), fs[Head(queue)].text)
    /\ queue' = Tail(queue)
    /\ result' = None
    /\ UNCHANGED <<fs, options, pc, visited, externals, scanned, externalArray,
                   userBuildResult, obfuscatedOutputs, depMapping,
                   vendorEntryPath, vendorOutput, rewritten, error, warnings,
                   events>>

\* the onLoad callback, called for a module whose path the filter matches
OnLoad ==
    /\ pc = "load"
    /\ queue # <<>>
    /\ FilterMatches(options.include, Head(queue))
    /\ LET path == Head(queue)
           source == fs[path].text
       IN  IF Excluded(options.exclude, path) \/ Blank(source)
           THEN \* return undefined
                /\ transformed' = Remember(path, source)
                /\ queue' = Tail(queue)
                /\ result' = None
                /\ UNCHANGED <<pc, error, events>>
           ELSE \/ \E code \in EngineOutputs :
                     /\ transformed' = Remember(path, code)
                     /\ queue' = Tail(queue)
                     /\ result' = Some([contents |-> code, loader |-> "js"])
                     /\ events' = Append(events, Event("obfuscate", path, <<>>))
                     /\ UNCHANGED <<pc, error>>
                \/ \* the engine raises: console.error, then throw error
                   /\ events' = Append(events, Event("obfuscate", path, <<>>))
                   /\ error' = "obfuscation failed"
                   /\ pc' = "thrown"
                   /\ UNCHANGED <<transformed, queue, result>>
    /\ UNCHANGED <<fs, options, visited, externals, scanned, externalArray,
                   userBuildResult, obfuscatedOutputs, depMapping,
                   vendorEntryPath, vendorOutput, rewritten, warnings>>

NextPlugin == LoadWithoutPlugin \/ OnLoad

SpecPlugin == InitPlugin /\ [][NextPlugin]_vars

\* the paths the engine was called on
EngineCalledOn == {events[k].path : k \in ObfuscateEvents}

\* the include filter as the documentation states it
IncludeFilterHolds(path) ==
    IF options.include = None
    THEN \E n \in 1..Len(path) :
            SubSeq(path, n, Len(path)) \in {<<".", "j", "s">>, <<".", "m", "j", "s">>}
    ELSE Test(options.include[1], path)

ExcludeFilterHolds(path) ==
    options.exclude # None /\ Test(options.exclude[1], path)

HasOnlyWhitespace(text) == \A j \in 1..Len(text) : text[j] \in Whitespace

PluginLoading == pc \in {"load", "thrown"} /\ DOMAIN fs = Range(PluginLoadOrder)

\* C15: the plugin calls the engine on a loaded file only if the path matches
\* the include filter (by default a path ending in .js or .mjs), does not
\* match the exclude filter and the content is not blank; an excluded or a
\* blank file reaches the bundler with its own text and without an engine
\* call; and when the engine raises, the load ends in the raised error, with
\* nothing returned for that file.
C15_PluginTransformsOnlyFilteredFiles ==
    PluginLoading =>
        /\ \A path \in EngineCalledOn :
              /\ IncludeFilterHolds(path)
              /\ ~ExcludeFilterHolds(path)
              /\ ~HasOnlyWhitespace(fs[path].text)
        /\ \A path \in DOMAIN transformed :
              IF path \in EngineCalledOn
              THEN transformed[path] \in EngineOutputs
              ELSE transformed[path] = fs[path].text
        /\ \A path \in DOMAIN transformed :
              (ExcludeFilterHolds(path) \/ HasOnlyWhitespace(fs[path].text))
                  => /\ path \notin EngineCalledOn
                     /\ transformed[path] = fs[path].text
        /\ (\E k \in ObfuscateEvents : events[k].path \notin DOMAIN transformed)
              => /\ pc = "thrown"
                 /\ error = "obfuscation failed"
                 /\ events[Len(events)].path = Head(queue)

\* every file was loaded: one transformed, one excluded, one blank
C15_Witness_TransformedExcludedAndBlank ==
    /\ PluginLoading
    /\ queue = <<>>
    /\ pluginPathJs \in EngineCalledOn
    /\ ExcludeFilterHolds(pluginPathMin)
    /\ ~HasOnlyWhitespace(fs[pluginPathMin].text)
    /\ HasOnlyWhitespace(fs[pluginPathMjs].text)
    /\ transformed[pluginPathMjs] = fs[pluginPathMjs].text

\* ---------------------------------------------------------------------
\* the order of the phases of obfuscatedBuild
\* ---------------------------------------------------------------------

\* the phase a logged call belongs to; the unlink of the clean-up is no phase
PhaseOfEvent(e) ==
    IF e.op = "mkdir" THEN 1
    ELSE IF e.op = "build" /\ e.path = Null THEN 2
    ELSE IF e.op = "obfuscate" THEN 3
    ELSE IF e.op \in {"writeEntry", "build"} THEN 4
    ELSE IF e.op = "rewrite" THEN 5
    ELSE 0

PhaseEvents == {k \in 1..Len(events) : PhaseOfEvent(events[k]) > 0}

\* the .js/.mjs artifacts with non-blank text that the first build wrote
ArtifactsToTransform ==
    IF userBuildResult = None THEN {}
    ELSE {k \in 1..Len(userBuildResult[1].outputs) :
            /\ IsJsPath(ArtifactPath(k))
            /\ ~HasOnlyWhitespace(BuildArtifacts[k].text)}

\* the calls are logged in the order of their phases, and what a phase needs
\* of the one before it is there when its first call is logged
PhasesInOrder ==
    /\ \A i, j \in PhaseEvents :
          i < j => PhaseOfEvent(events[i]) <= PhaseOfEvent(events[j])
    /\ BuildEvents # {} => (queue = <<>> /\ externalArray = externals)
    /\ ObfuscateEvents # {} =>
          /\ userBuildResult # None
          /\ IF userBuildResult = None THEN FALSE ELSE userBuildResult[1].success
    /\ WriteEntryEvents # {} =>
          /\ Len(obfuscatedOutputs) = Len(userBuildResult[1].outputs)
          /\ \A k \in ArtifactsToTransform :
                \E i \in ObfuscateEvents :
                    /\ events[i].path = ArtifactPath(k)
                    /\ i < MinOf(WriteEntryEvents)
          /\ \A k \in 1..Len(obfuscatedOutputs) :
                obfuscatedOutputs[k] \in DOMAIN transformed
    /\ RewriteEvents # {} =>
          /\ IF vendorOutput = None THEN FALSE ELSE vendorOutput[1].success
          /\ \E i \in BuildEvents : events[i].path # Null
    /\ \A p \in rewritten :
          /\ p \in DOMAIN transformed
          /\ fs[p].text = RewriteCode(transformed[p], externalArray, depMapping)

\* C16: the phases of obfuscatedBuild happen in the order scan, first-party
\* build, transformation of every artifact, vendor entry with vendor build,
\* import rewriting; no call of an earlier phase follows a call of a later
\* one, a phase has begun only if the one before it has finished, and the text
\* the rewriter rewrote in an artifact is the text phase 2 left in it.
C16_PhasesInFixedOrder == PhasesInOrder

\* every phase has run: the scan read two files, the engine was called and
\* the rewriter changed an artifact after a vendor build
C16_Witness_AllFivePhasesRan ==
    /\ pc = "returned"
    /\ Len(scanned) >= 2
    /\ ObfuscateEvents # {}
    /\ WriteEntryEvents # {}
    /\ rewritten # {}
    /\ \E p \in rewritten : fs[p].text # transformed[p]

\* ---------------------------------------------------------------------
\* isValidImportPath over every short string
\* ---------------------------------------------------------------------

MaxSpecifierLen == 2

\* a letter, a digit, the punctuation of the allow-list, whitespace, the
\* characters of the template literal syntax and one character outside of all
CandidateChars == {"a", "1", ".", ":", "/", " ", "\n", "$", "{", "}", "#"}

CandidateSpecifiers == SeqsUpTo(CandidateChars, MaxSpecifierLen)

InitValidate ==
    /\ fs = <<>>
    /\ options = [entrypoints |-> None, outdir |-> None, bundleNodeModules |-> None,
                  external |-> None, skipVendorBundleGeneration |-> None,
                  existingVendorBundlePath |-> None]
    /\ pc = "validate"
    /\ queue \in {<<dep>> : dep \in CandidateSpecifiers}
    /\ visited = {}
    /\ externals = <<>>
    /\ scanned = <<>>
    /\ externalArray = <<>>
    /\ userBuildResult = None
    /\ obfuscatedOutputs = <<>>
    /\ transformed = <<>>
    /\ depMapping = <<>>
    /\ vendorEntryPath = None
    /\ vendorOutput = None
    /\ rewritten = {}
    /\ result = None
    /\ error = ""
    /\ warnings = 0
    /\ events = <<>>

\* isValidImportPath(dep) returns true
AcceptImportPath ==
    /\ pc = "validate"
    /\ isValidImportPath(Head(queue))
    /\ pc' = "valid"
    /\ UNCHANGED <<fs, options, queue, visited, externals, scanned, externalArray,
                   userBuildResult, obfuscatedOutputs, transformed, depMapping,
                   vendorEntryPath, vendorOutput, rewritten, result, error,
                   warnings, events>>

\* isValidImportPath(dep) returns false
RejectImportPath ==
    /\ pc = "validate"
    /\ ~isValidImportPath(Head(queue))
    /\ pc' = "invalid"
    /\ UNCHANGED <<fs, options, queue, visited, externals, scanned, externalArray,
                   userBuildResult, obfuscatedOutputs, transformed, depMapping,
                   vendorEntryPath, vendorOutput, rewritten, result, error,
                   warnings, events>>

NextValidate == AcceptImportPath \/ RejectImportPath

SpecValidate == InitValidate /\ [][NextValidate]_vars

HasLetterOrDigit(path) == \E k \in 1..Len(path) : path[k] \in Letters \cup Digits

\* the six reasons for which a string is to be rejected
ToBeRejected(path) ==
    \/ HasOnlyWhitespace(path)
    \/ \E k \in 1..Len(path) : path[k] \in {"\r", "\n"}
    \/ \E k \in 1..(Len(path) - 1) : path[k] = "$" /\ path[k + 1] = "{"
    \/ (path # <<>> /\ (path[1] \in Whitespace \/ path[Len(path)] \in Whitespace))
    \/ \E k \in 1..Len(path) :
          path[k] \notin Letters \cup Digits \cup {".", "/", "-", "_", "@", ":"}
    \/ ~HasLetterOrDigit(path)

\* C17: isValidImportPath rejects a string exactly when it is empty or only
\* whitespace, contains CR or LF, contains the interpolation marker, has
\* leading or trailing whitespace, contains a character outside letters,
\* digits and . / - _ @ :, or has no letter and no digit at all.
C17_RejectsExactlyTheListedStrings ==
    /\ pc = "invalid" => ToBeRejected(Head(queue))
    /\ pc = "valid" => ~ToBeRejected(Head(queue))

\* ---------------------------------------------------------------------
\* directories among the local specifiers
\* ---------------------------------------------------------------------

\* the extensions that name a source file
sourceExtensions == {extensions[k] : k \in {j \in 1..Len(extensions) : extensions[j] # << >>}}

\* the local specifiers the scan finds in file p
LocalSpecifiersScanned(files, p) ==
    {d \in Range(AllImports(StripComments(files[p].text))) :
        isValidImportPath(d) /\ ~isExternal(d)}

\* the first index file inside directory dir, Null when it holds none
FirstIndexFile(files, dir) ==
    FirstExisting(files, [k \in 1..Len(indexFiles) |-> join(dir, indexFiles[k])])

\* specifier d of file p names an existing directory, and no file with a
\* source extension stands beside it
NamesDirectory(files, p, d) ==
    LET resolved == resolve(dirname(p), d)
    IN  /\ existsSync(files, resolved)
        /\ isDirectory(files, resolved)
        /\ \A ext \in sourceExtensions : ~existsSync(files, resolved \o ext)

\* C18: once the closure scan has returned, for every scanned file and every
\* local specifier in it that names an existing directory with no file at the
\* path plus a source extension, resolveLocalImport gave the first index file
\* that exists inside the directory, and that index file was scanned.
C18_DirectoryResolvesToIndexFile ==
    ScanReturned =>
        \A p \in {q \in Range(scanned) : IsFile(fs, q)} :
            \A d \in LocalSpecifiersScanned(fs, p) :
                (/\ NamesDirectory(fs, p, d)
                 /\ FirstIndexFile(fs, resolve(dirname(p), d)) # Null)
                    => /\ resolveLocalImport(fs, d, p)
                            = FirstIndexFile(fs, resolve(dirname(p), d))
                       /\ FirstIndexFile(fs, resolve(dirname(p), d)) \in Range(scanned)

\* ---------------------------------------------------------------------
\* failures confined to one file of the closure scan
\* ---------------------------------------------------------------------

IsPrefix(s, t) == Len(s) <= Len(t) /\ SubSeq(t, 1, Len(s)) = s

\* the external specifiers the scan finds in file p
ExternalSpecifiersScanned(files, p) ==
    {d \in Range(AllImports(StripComments(files[p].text))) :
        isValidImportPath(d) /\ isExternal(d)}

\* what one turn of the scan loop does with the path at the head of the queue
ScanStepIsolatesFailure ==
    /\ pc' \in {"scan", "userBuild"}
    /\ error' = ""
    /\ result' = None
    /\ IsPrefix(externals, externals')
    /\ pc' = "userBuild" => queue = <<>>
    /\ queue # <<>> =>
          /\ IsPrefix(Tail(queue), queue')
          /\ Head(queue) \in visited'
          /\ (Head(queue) \notin visited /\ IsFile(fs, Head(queue))) =>
                /\ scanned' = Append(scanned, Head(queue))
                /\ ExternalSpecifiersScanned(fs, Head(queue)) \subseteq Range(externals')
                /\ \A d \in LocalSpecifiersScanned(fs, Head(queue)) :
                      LET target == resolveLocalImport(fs, d, Head(queue))
                      IN  (target # Null /\ target \notin visited')
                              => target \in Range(queue')

\* C19: no turn of the scan loop throws or returns, whatever the path at the
\* head of the queue is (missing, unreadable, or a file with a specifier that
\* does not resolve): the turn keeps the externals collected so far and the
\* rest of the queue, a readable file still yields all its externals and all
\* its resolvable local targets, and the scan returns only on an empty queue.
C19_FileFailureStaysLocal == [][pc = "scan" => ScanStepIsolatesFailure]_vars

\* the scan returned after it tried to read a directory and met a specifier
\* that does not resolve; the other entrypoint was scanned, externals are kept
C19_Witness_ScanWentPastFailures ==
    /\ ScanReturned
    /\ pathLib \in Range(scanned)
    /\ pathB \in Range(scanned)
    /\ \E p \in Range(scanned) :
          /\ IsFile(fs, p)
          /\ \E d \in LocalSpecifiersScanned(fs, p) : resolveLocalImport(fs, d, p) = Null
    /\ externalArray # <<>>

\* ---------------------------------------------------------------------
\* two invocations of obfuscatedBuild in their vendor steps
\* ---------------------------------------------------------------------
\* In this specification pc, options, externalArray, vendorEntryPath and
\* vendorOutput hold one value per invocation; the file system is shared.

Invocations == {1, 2}

depLodash == <<"l","o","d","a","s","h">>

depMs == <<"m","s">>

\* both first entrypoints lie in the directory "/"
EntrypointsInOneDirectory == {<< <<"/","a",".","t","s">> >>, << <<"b",".","t","s">> >>}

OptionsOfCall(entrypoints) ==
    [entrypoints |-> Some(entrypoints), outdir |-> Some(outdirName),
     bundleNodeModules |-> None, external |-> None,
     skipVendorBundleGeneration |-> None, existingVendorBundlePath |-> None]

InitTwoBuilds ==
    /\ fs = (pathRoot :> Directory)
    /\ options \in {<<OptionsOfCall(e1), OptionsOfCall(e2)>> :
                        e1 \in EntrypointsInOneDirectory,
                        e2 \in EntrypointsInOneDirectory}
    /\ pc = <<"obfuscate", "obfuscate">>
    /\ externalArray \in {<<a1, a2>> : a1 \in {<<depLodash>>, <<depLodash, depMs>>},
                                        a2 \in {<<depLodash>>, <<depMs>>}}
    /\ vendorEntryPath = <<None, None>>
    /\ vendorOutput = <<None, None>>
    /\ queue = <<>>
    /\ visited = {}
    /\ externals = <<>>
    /\ scanned = <<>>
    /\ userBuildResult = None
    /\ obfuscatedOutputs = <<>>
    /\ transformed = <<>>
    /\ depMapping = <<>>
    /\ rewritten = {}
    /\ result = None
    /\ error = ""
    /\ warnings = 0
    /\ events = <<>>

OutsideVendorStep ==
    <<queue, visited, externals, scanned, userBuildResult, obfuscatedOutputs,
      transformed, depMapping, rewritten, result, error, warnings>>

\* the values Date.now() has returned so far
NowsTaken ==
    {t \in Times : \E i \in Invocations :
        vendorEntryPath[i] = Some(VendorEntryPathAt(options[i].entrypoints[1], t))}

\* Date.now() does not run backwards; two calls may see the same millisecond
NowCanBe(now) == \A t \in NowsTaken : now >= t

\* invocation i computes vendorEntryPath, writes the entry file, calls Bun.build
WriteVendorEntryOf(i) ==
    /\ pc[i] = "obfuscate"
    /\ \E now \in Times :
          /\ NowCanBe(now)
          /\ LET path == VendorEntryPathAt(options[i].entrypoints[1], now)
             IN  /\ vendorEntryPath' = [vendorEntryPath EXCEPT ![i] = Some(path)]
                 /\ fs' = WriteFile(fs, path, VendorEntryContent(externalArray[i]))
                 /\ events' = Append(events, Event("writeEntry", path, externalArray[i]))
    /\ pc' = [pc EXCEPT ![i] = "vendorBuild"]
    /\ UNCHANGED <<options, externalArray, vendorOutput, OutsideVendorStep>>

\* the vendor Bun.build of invocation i reads its entrypoint and resolves
VendorBuildOf(i) ==
    /\ pc[i] = "vendorBuild"
    /\ vendorOutput' =
          [vendorOutput EXCEPT ![i] =
              IF existsSync(fs, vendorEntryPath[i][1])
              THEN Some([success |-> TRUE, entry |-> fs[vendorEntryPath[i][1]].text])
              ELSE Some([success |-> FALSE, entry |-> Null])]
    /\ events' = Append(events, Event("build", vendorEntryPath[i][1], <<>>))
    /\ pc' = [pc EXCEPT ![i] = "unlinkTry"]
    /\ UNCHANGED <<fs, options, externalArray, vendorEntryPath, OutsideVendorStep>>

\* await fs.unlink(vendorEntryPath).catch(() => {}) of invocation i
UnlinkOf(i) ==
    /\ pc[i] = "unlinkTry"
    /\ \E fulfilled \in BOOLEAN :
          /\ fs' = UnlinkQuietly(fs, vendorEntryPath[i][1], fulfilled)
          /\ events' = Append(events, UnlinkEvent(fs, vendorEntryPath[i][1], fulfilled))
    /\ pc' = [pc EXCEPT ![i] = "returned"]
    /\ UNCHANGED <<options, externalArray, vendorEntryPath, vendorOutput,
                   OutsideVendorStep>>

NextTwoBuilds ==
    \E i \in Invocations : WriteVendorEntryOf(i) \/ VendorBuildOf(i) \/ UnlinkOf(i)

SpecTwoBuilds == InitTwoBuilds /\ [][NextTwoBuilds]_vars

\* the vendor build of invocation i has been called and has not resolved
VendorBuildRunning(i) == pc[i] = "vendorBuild"

\* C20: two invocations whose first entrypoints lie in one directory never have
\* the same vendor entry path, and while the vendor build of one has not
\* resolved its entry file is there with the content that invocation wrote.
C20_EntryPathsNeverCollide ==
    (DOMAIN pc = Invocations) =>
        /\ (vendorEntryPath[1] # None /\ vendorEntryPath[2] # None)
              => vendorEntryPath[1] # vendorEntryPath[2]
        /\ \A i \in Invocations :
              VendorBuildRunning(i) =>
                  /\ existsSync(fs, vendorEntryPath[i][1])
                  /\ fs[vendorEntryPath[i][1]].text = VendorEntryContent(externalArray[i])

\* ---------------------------------------------------------------------
\* what a returned vendorOutput says about the artifacts
\* ---------------------------------------------------------------------

\* obfuscatedBuild returned success = true with a vendorOutput of success = true
ReturnedWithVendorSuccess ==
    /\ pc = "returned"
    /\ IF result = None THEN FALSE
       ELSE /\ result[1].success
            /\ IF result[1].vendorOutput = None THEN FALSE
               ELSE result[1].vendorOutput[1].success

\* the .js/.mjs artifacts among the returned outputs
ReturnedJsOutputs == {p \in Range(result[1].outputs) : IsJsPath(p)}

\* C21: whenever obfuscatedBuild has returned success = true with a vendorOutput
\* whose success is true, every .js/.mjs artifact of the returned outputs was
\* rewritten and begins with the vendor import statement: the rewriter never
\* stopped after a prefix of them, or before the first.
C21_VendorSuccessMeansAllRewritten ==
    ReturnedWithVendorSuccess =>
        \A p \in ReturnedJsOutputs :
            /\ p \in rewritten
            /\ StartsWith(fs[p].text, ExpectedVendorImport)

\* ---------------------------------------------------------------------
\* one alias per specifier in the entry, the rewriter and the import
\* ---------------------------------------------------------------------

\* the pieces of text t between the occurrences of the separator sep, from i on
RECURSIVE PiecesFrom(_, _, _)
PiecesFrom(t, sep, i) ==
    LET j == IndexOfFrom(t, sep, i)
    IN  IF j = 0 THEN <<SubSeq(t, i, Len(t))>>
        ELSE <<SubSeq(t, i, j - 1)>> \o PiecesFrom(t, sep, j + Len(sep))

\* the text of t between the first "open" and the next "close" after it
Between(t, open, close) ==
    LET a == IndexOfFrom(t, open, 1)
        b == IF a = 0 THEN 0 ELSE IndexOfFrom(t, close, a + Len(open))
    IN  IF a = 0 \/ b = 0 THEN Null ELSE SubSeq(t, a + Len(open), b - 1)

\* the lines of the vendor entry file
EntryLines == PiecesFrom(fs[vendorEntryPath[1]].text, <<"\n">>, 1)

\* the alias a line "export * as <alias> from "<specifier>";" exports
ExportedAlias(line) ==
    Between(line, <<"e","x","p","o","r","t"," ","*"," ","a","s"," ">>,
                  <<" ","f","r","o","m"," ">>)

\* the specifier a line of the vendor entry re-exports
ExportedSpecifier(line) == Between(line, <<"\"">>, <<"\"">>)

\* the names of the import statement at the head of a rewritten artifact
ImportedNames(text) ==
    PiecesFrom(Between(text, <<"i","m","p","o","r","t"," ","{"," ">>, <<" ","}">>),
               <<",", " ">>, 1)

\* the alias of each specifier by its position in the external array
AliasByPosition ==
    [d \in Range(externalArray) |->
        AliasAt(CHOOSE k \in 1..Len(externalArray) : externalArray[k] = d)]

\* C22: for the specifier d at position i of the external array (counted from
\* 0), the alias the vendor entry file exports d under, the alias the rewriter
\* put in place of the imports and requires of d, and the i-th name of the
\* import statement at the head of a rewritten artifact are all _dep<i>; and
\* the names of that import statement are exactly the exported aliases.
C22_OneAliasPerSpecifierEverywhere ==
    /\ EntryFileLeft =>
          LET lines == EntryLines
          IN  /\ Len(lines) = Len(externalArray)
              /\ \A k \in 1..Len(externalArray) :
                    /\ ExportedSpecifier(lines[k]) = externalArray[k]
                    /\ ExportedAlias(lines[k]) = AliasAt(k)
                    /\ depMapping[externalArray[k]] = AliasAt(k)
    /\ \A p \in rewritten :
          LET names == ImportedNames(fs[p].text)
          IN  /\ Len(names) = Len(externalArray)
              /\ \A k \in 1..Len(externalArray) :
                    /\ names[k] = AliasAt(k)
                    /\ names[k] = depMapping[externalArray[k]]
              /\ Range(names) = {AliasAt(k) : k \in 1..Len(externalArray)}
              /\ fs[p].text = ExpectedVendorImport
                                \o RewriteDeps(transformed[p], externalArray, 1,
                                               AliasByPosition)

\* the build returned with two externals, the entry file still there after a
\* rejected unlink, and an artifact in which the rewriter put the second alias
C22_Witness_SecondAliasSubstituted ==
    /\ pc = "returned"
    /\ EntryFileLeft
    /\ Len(externalArray) >= 2
    /\ \E p \in rewritten :
          /\ Includes(transformed[p], externalArray[2])
          /\ Includes(SubSeq(fs[p].text, Len(ExpectedVendorImport) + 1, Len(fs[p].text)),
                      AliasAt(2))

\* obfuscatedBuild up to the return of collectExternalDependencies
NextUntilScanReturns ==
    \/ RejectEntrypoints
    \/ RejectOutdir
    \/ StartScan
    \/ ScanFile
    \/ FinishScan

\* what an iteration of the while loop does to a path that is in the visited
\* set already: it is taken off the queue
LoopSkips ==
    /\ pc = "scan"
    /\ queue # <<>>
    /\ Len(scanned) < MaxScans
    /\ AlreadyVisited(visited, Head(queue))
    /\ queue' = Tail(queue)

\* what an iteration of the while loop does to a path that is not in the
\* visited set: it is recorded there
LoopVisits ==
    /\ pc = "scan"
    /\ queue # <<>>
    /\ Len(scanned) < MaxScans
    /\ ~AlreadyVisited(visited, Head(queue))
    /\ visited' = MarkVisited(visited, Head(queue))

\* the fairness of the scan: the while loop is synchronous code, so while the
\* queue holds a path the next iteration runs (every ScanFile step is a
\* LoopSkips step that changes the queue or a LoopVisits step that changes the
\* visited set), and with the queue empty the function returns
SpecLive ==
    /\ Init
    /\ [][NextUntilScanReturns]_vars
    /\ WF_queue(LoopSkips)
    /\ WF_visited(LoopVisits)
    /\ WF_vars(FinishScan)


====
